---------------------------- MODULE Spec2Model ----------------------------
(***************************************************************************)
(* A model of the strategy signal engine (src/src/strategy/strategy.py)    *)
(* and of the backtester (src/Backtesting/backtester.py): run_backtest,    *)
(* run_all and generate_report.                                            *)
(*                                                                         *)
(* Numbers.  A pandas/numpy float is modelled as a record [n, d]:          *)
(*   d > 0          the exact rational n/d in lowest terms,                *)
(*   d = 0, n = 0   NaN,                                                   *)
(*   d = 0, n = 1   +inf,      d = 0, n = -1   -inf.                       *)
(* Finite arithmetic is exact (rounding of the binary representation is    *)
(* not modelled); NaN and the infinities follow IEEE 754 as numpy applies  *)
(* it to a float column: x/0 is +-inf, 0/0 is NaN, every comparison with   *)
(* NaN is false.                                                           *)
(*                                                                         *)
(* A DataFrame is a function from column names to columns (sequences       *)
(* indexed 1..n; row i of the model is row i-1 of the code).               *)
(***************************************************************************)
EXTENDS Integers, Sequences, FiniteSets, TLC

VARIABLES
    data,             \* the bar DataFrame handed to Strategy.generate_signals
    strategy,         \* the Strategy object under call (its configuration)
    out,              \* the DataFrame generate_signals returned, or NoResult
    df,               \* run_backtest: the DataFrame being simulated
    initial_capital,  \* run_backtest: parameter
    capital,          \* run_backtest: local
    position,         \* run_backtest: local (0 flat, 1 long)
    entry_price,      \* run_backtest: local (Unbound until the first buy)
    trades,           \* run_backtest: local list of trade records
    row,              \* run_backtest: the loop variable i (0-based row)
    result,           \* run_backtest: the result record, or NoResult
    symbol,           \* run_backtest: parameter
    results,          \* Backtester.results, a dict in insertion order
    next_symbol,      \* run_all: position in self.symbols (0: no batch)
    report,           \* the value generate_report returned, or NoResult
    active_orders,    \* TradeExecutor.active_orders: order id -> its dict
    trade_history,    \* TradeExecutor.trade_history: the order dicts
    position_sizes,   \* RiskManager.position_sizes: symbol -> size
    last_call,        \* the TradeExecutor call just made and what it returned
    running,          \* TradingBot.running
    iterations,       \* iterations of run's while loop started so far
    processed,        \* this iteration's process_symbol calls, in order
    shutdowns,        \* calls of TradingBot.shutdown made so far
    pc                \* position of the modelled call

vars == <<data, strategy, out, df, initial_capital, capital, position,
          entry_price, trades, row, result, symbol, results, next_symbol,
          report, active_orders, trade_history, position_sizes, last_call,
          running, iterations, processed, shutdowns, pc>>

strategyVars == <<data, strategy, out>>
backtestVars == <<df, initial_capital, capital, position, entry_price,
                  trades, row, result, symbol, results, next_symbol, report>>
botVars == <<running, iterations, processed, shutdowns>>
liveVars == <<active_orders, trade_history, position_sizes, last_call,
              botVars>>

-----------------------------------------------------------------------------
(* Bounds of the model.                                                    *)

MaxBars == 3          \* bars in a DataFrame given to generate_signals
MaxPrice == 2         \* closes of those bars are 1..MaxPrice
MaxPeriod == 3        \* RSI periods are 1..MaxPeriod
MaxStrategies == 4    \* sub-strategies added to a CombinedStrategy
MaxBacktestBars == 4  \* bars in a DataFrame simulated by run_backtest

-----------------------------------------------------------------------------
(* Floats.                                                                 *)

Abs(x) == IF x < 0 THEN -x ELSE x

RECURSIVE GCD(_, _)
GCD(a, b) == IF b = 0 THEN a ELSE GCD(b, a % b)

NaN == [n |-> 0, d |-> 0]
PosInf == [n |-> 1, d |-> 0]
NegInf == [n |-> -1, d |-> 0]

\* The float n/d (d # 0) in lowest terms with a positive denominator.
Rat(n, d) ==
    LET g == GCD(Abs(n), Abs(d))
        s == IF d < 0 THEN -1 ELSE 1
    IN [n |-> s * (n \div g), d |-> s * (d \div g)]

Num(k) == [n |-> k, d |-> 1]

IsNaN(x) == x.d = 0 /\ x.n = 0
IsFinite(x) == x.d > 0
Sign(x) == IF x.n > 0 THEN 1 ELSE IF x.n < 0 THEN -1 ELSE 0

FNeg(x) == [n |-> -x.n, d |-> x.d]

FAdd(x, y) ==
    IF IsNaN(x) \/ IsNaN(y) THEN NaN
    ELSE IF IsFinite(x) /\ IsFinite(y)
         THEN LET g == GCD(x.d, y.d)       \* over the common denominator
              IN Rat(x.n * (y.d \div g) + y.n * (x.d \div g),
                     (x.d \div g) * y.d)
    ELSE IF IsFinite(x) THEN y
    ELSE IF IsFinite(y) THEN x
    ELSE IF x = y THEN x ELSE NaN          \* inf + (-inf)

FSub(x, y) == FAdd(x, FNeg(y))

FMul(x, y) ==
    IF IsNaN(x) \/ IsNaN(y) THEN NaN
    ELSE IF IsFinite(x) /\ IsFinite(y) THEN Rat(x.n * y.n, x.d * y.d)
    ELSE IF Sign(x) * Sign(y) = 0 THEN NaN  \* 0 * inf
    ELSE [n |-> Sign(x) * Sign(y), d |-> 0]

FDiv(x, y) ==
    IF IsNaN(x) \/ IsNaN(y) THEN NaN
    ELSE IF IsFinite(x) /\ IsFinite(y)
         THEN IF y.n # 0 THEN Rat(x.n * y.d, x.d * y.n)
              ELSE IF x.n = 0 THEN NaN      \* 0/0
              ELSE [n |-> Sign(x), d |-> 0] \* x/0
    ELSE IF IsFinite(x) THEN Num(0)         \* x/inf
    ELSE IF IsFinite(y)
         THEN [n |-> Sign(x) * (IF y.n < 0 THEN -1 ELSE 1), d |-> 0]
    ELSE NaN                                \* inf/inf

\* x < y as numpy evaluates it: False as soon as one side is NaN.
FLt(x, y) ==
    /\ ~IsNaN(x)
    /\ ~IsNaN(y)
    /\ IF IsFinite(x) /\ IsFinite(y) THEN x.n * y.d < y.n * x.d
       ELSE IF IsFinite(x) THEN y = PosInf
       ELSE IF IsFinite(y) THEN x = NegInf
       ELSE x = NegInf /\ y = PosInf

FEq(x, y) == ~IsNaN(x) /\ ~IsNaN(y) /\ x = y
FGt(x, y) == FLt(y, x)
FLe(x, y) == FLt(x, y) \/ FEq(x, y)
FGe(x, y) == FLe(y, x)

-----------------------------------------------------------------------------
(* Columns.                                                                *)

NoResult == "None"    \* Python's None
Unbound == "unbound"  \* a local variable not yet assigned

\* A column as a sequence value (rows computed once, then only read).
Column(col) == SubSeq(col, 1, Len(col))

\* Series.shift(1): the first row is NaN, row i holds the former row i-1.
Shift(col) ==
    Column([i \in 1..Len(col) |-> IF i = 1 THEN NaN ELSE col[i - 1]])

\* Series.diff(): the first row is NaN.
Diff(col) ==
    Column([i \in 1..Len(col) |->
               IF i = 1 THEN NaN ELSE FSub(col[i], col[i - 1])])

\* Series - Series, row by row.
ColSub(a, b) == Column([i \in 1..Len(a) |-> FSub(a[i], b[i])])

\* Series / Series, row by row.
ColDiv(a, b) == Column([i \in 1..Len(a) |-> FDiv(a[i], b[i])])

\* A column holding the same value in each of n rows.
Fill(n, value) == Column([i \in 1..n |-> value])

RECURSIVE EwmRows(_, _, _)
\* Rows 1..i of Series.ewm(span=span, adjust=False).mean():
\* y[0] = x[0], y[t] = (1 - alpha) * y[t-1] + alpha * x[t], alpha = 2/(span+1).
EwmRows(col, span, i) ==
    LET alpha == Rat(2, span + 1)
    IN IF i = 0 THEN <<>>
       ELSE IF i = 1 THEN <<col[1]>>
       ELSE LET prev == EwmRows(col, span, i - 1)
            IN Append(prev, FAdd(FMul(FSub(Num(1), alpha), prev[i - 1]),
                                 FMul(alpha, col[i])))

EwmMean(col, span) == EwmRows(col, span, Len(col))

RECURSIVE WindowSum(_, _, _)
\* col[lo] + ... + col[hi]
WindowSum(col, lo, hi) ==
    IF lo > hi THEN Num(0) ELSE FAdd(WindowSum(col, lo, hi - 1), col[hi])

\* rolling(window, min_periods=1): a mean over the rows seen so far.
RollingMeanPartial(col, window) ==
    Column([i \in 1..Len(col) |->
               LET lo == IF i < window THEN 1 ELSE i - window + 1
               IN FDiv(WindowSum(col, lo, i), Num(i - lo + 1))])

\* Series.rolling(window=window).mean(): NaN until the window is full.
RollingMean(col, window) ==
    Column([i \in 1..Len(col) |->
               IF i < window THEN NaN
               ELSE FDiv(WindowSum(col, i - window + 1, i), Num(window))])

\* df.loc[mask, column] = value on a column: rows where mask holds get value.
LocAssign(col, mask, value) ==
    Column([i \in 1..Len(col) |-> IF mask[i] THEN value ELSE col[i]])

\* A DataFrame with one more (or a replaced) column.
WithColumn(frame, name, col) ==
    [c \in DOMAIN frame \cup {name} |-> IF c = name THEN col ELSE frame[c]]

NRows(frame) == Len(frame["close"])

-----------------------------------------------------------------------------
(* Strategy objects: their configuration.                                  *)

MACDStrategy(fast, slow, sig) ==
    [type |-> "MACDStrategy", fast_period |-> fast, slow_period |-> slow,
     signal_period |-> sig]

RSIStrategy(period, oversold, overbought) ==
    [type |-> "RSIStrategy", period |-> period, oversold |-> oversold,
     overbought |-> overbought]

CombinedStrategy(strategies) ==
    [type |-> "CombinedStrategy", strategies |-> strategies]

-----------------------------------------------------------------------------------------------------------------------------------------------------
(* MACDStrategy.                                                           *)

CalculateMACD(self, d) ==
    LET ema_fast == EwmMean(d["close"], self.fast_period)
        ema_slow == EwmMean(d["close"], self.slow_period)
        macd == ColSub(ema_fast, ema_slow)
        signal == EwmMean(macd, self.signal_period)
        histogram == ColSub(macd, signal)
    IN WithColumn(WithColumn(WithColumn(WithColumn(WithColumn(d,
           "ema_fast", ema_fast), "ema_slow", ema_slow), "macd", macd),
           "signal", signal), "histogram", histogram)

\* A cross detected with a strict comparison on the previous bar.
MACDBuyMaskStrict(macd, signal) ==
    LET prev_macd == Shift(macd)
        prev_signal == Shift(signal)
    IN Column([i \in 1..Len(macd) |->
                  FGt(macd[i], signal[i]) /\ FLt(prev_macd[i], prev_signal[i])])

\* The golden-cross mask of line 48.
MACDBuyMask(macd, signal) ==
    LET prev_macd == Shift(macd)
        prev_signal == Shift(signal)
    IN Column([i \in 1..Len(macd) |->
                  FGt(macd[i], signal[i]) /\ FLe(prev_macd[i], prev_signal[i])])

\* The death-cross mask of line 51.
MACDSellMask(macd, signal) ==
    LET prev_macd == Shift(macd)
        prev_signal == Shift(signal)
    IN Column([i \in 1..Len(macd) |->
                  FLt(macd[i], signal[i]) /\ FGe(prev_macd[i], prev_signal[i])])

\* The signals of the rows that have a previous row only (the first row
\* dropped with the NaN of its shifted columns).
MACDGenerateSignalsDropFirst(self, d) ==
    LET frame == CalculateMACD(self, d)
        hold == Fill(NRows(d), "hold")
        buy == LocAssign(hold,
                         MACDBuyMask(frame["macd"], frame["signal"]), "buy")
        sell == LocAssign(buy,
                          MACDSellMask(frame["macd"], frame["signal"]), "sell")
    IN WithColumn(frame, "signal_action", Tail(sell))

MACDGenerateSignals(self, d) ==
    LET frame == CalculateMACD(self, d)
        hold == Fill(NRows(d), "hold")
        buy == LocAssign(hold,
                         MACDBuyMask(frame["macd"], frame["signal"]), "buy")
        sell == LocAssign(buy,
                          MACDSellMask(frame["macd"], frame["signal"]), "sell")
    IN WithColumn(frame, "signal_action", sell)

-----------------------------------------------------------------------------
(* RSIStrategy.                                                            *)

\* np.where(price_change > 0, price_change, 0)
Gain(price_change) ==
    Column([i \in 1..Len(price_change) |->
               IF FGt(price_change[i], Num(0)) THEN price_change[i]
               ELSE Num(0)])

\* np.where(price_change < 0, -price_change, 0)
Loss(price_change) ==
    Column([i \in 1..Len(price_change) |->
               IF FLt(price_change[i], Num(0)) THEN FNeg(price_change[i])
               ELSE Num(0)])

\* rs = avg_gain / avg_loss
RelativeStrength(avg_gain, avg_loss) == ColDiv(avg_gain, avg_loss)

\* rsi = 100 - (100 / (1 + rs)), row by row.
RSIOfRS(rs) ==
    Column([i \in 1..Len(rs) |->
               FSub(Num(100), FDiv(Num(100), FAdd(Num(1), rs[i])))])

CalculateRSI(self, d) ==
    LET price_change == Diff(d["close"])
        gain == Gain(price_change)
        loss == Loss(price_change)
        avg_gain == RollingMean(gain, self.period)
        avg_loss == RollingMean(loss, self.period)
        rs == RelativeStrength(avg_gain, avg_loss)
        rsi == RSIOfRS(rs)
    IN WithColumn(WithColumn(WithColumn(WithColumn(WithColumn(WithColumn(
         WithColumn(d, "price_change", price_change), "gain", gain),
         "loss", loss), "avg_gain", avg_gain), "avg_loss", avg_loss),
         "rs", rs), "rsi", rsi)

\* A buy on entering the oversold zone instead of on leaving it.
RSIBuyMaskEnter(rsi, oversold) ==
    LET prev_rsi == Shift(rsi)
    IN Column([i \in 1..Len(rsi) |->
                  FLt(rsi[i], Num(oversold)) /\ FGe(prev_rsi[i], Num(oversold))])

\* The mask of line 94: rebound out of the oversold zone.
RSIBuyMask(rsi, oversold) ==
    LET prev_rsi == Shift(rsi)
    IN Column([i \in 1..Len(rsi) |->
                  FGt(rsi[i], Num(oversold)) /\ FLe(prev_rsi[i], Num(oversold))])

\* The mask of line 97: fall out of the overbought zone.
RSISellMask(rsi, overbought) ==
    LET prev_rsi == Shift(rsi)
    IN Column([i \in 1..Len(rsi) |->
                  /\ FLt(rsi[i], Num(overbought))
                  /\ FGe(prev_rsi[i], Num(overbought))])

RSIGenerateSignals(self, d) ==
    LET frame == CalculateRSI(self, d)
        hold == Fill(NRows(d), "hold")
        buy == LocAssign(hold, RSIBuyMask(frame["rsi"], self.oversold), "buy")
        sell == LocAssign(buy, RSISellMask(frame["rsi"], self.overbought),
                          "sell")
    IN WithColumn(frame, "signal_action", sell)

-----------------------------------------------------------------------------
(* CombinedStrategy.                                                       *)

\* The votes dictionary of lines 134-138 for one row: signals is the row's
\* strategy_<i>_signal values, in sub-strategy order.
Votes(signals) ==
    [k \in {"buy", "sell", "hold"} |->
        Cardinality({s \in 1..Len(signals) : signals[s] = k})]

\* max(votes.values())
MaxVotes(votes) ==
    CHOOSE m \in {votes[k] : k \in DOMAIN votes} :
        \A k \in DOMAIN votes : votes[k] <= m

\* The tie-break with sell tested before buy.
MajorityVoteSellFirst(signals) ==
    LET votes == Votes(signals)
        max_votes == MaxVotes(votes)
        max_signals == {k \in DOMAIN votes : votes[k] = max_votes}
    IN IF "sell" \in max_signals THEN "sell"
       ELSE IF "buy" \in max_signals THEN "buy"
       ELSE "hold"

\* A buy as soon as one sub-strategy votes buy.
MajorityVoteAnyBuy(signals) ==
    LET votes == Votes(signals)
    IN IF votes["buy"] > 0 THEN "buy"
       ELSE IF votes["sell"] > 0 THEN "sell"
       ELSE "hold"

\* A tie between kinds resolved to hold.
MajorityVoteHoldOnTie(signals) ==
    LET votes == Votes(signals)
        max_votes == MaxVotes(votes)
        max_signals == {k \in DOMAIN votes : votes[k] = max_votes}
    IN IF max_signals = {"buy"} THEN "buy"
       ELSE IF max_signals = {"sell"} THEN "sell"
       ELSE "hold"

\* Lines 141-150: the final signal of one row.
MajorityVote(signals) ==
    LET votes == Votes(signals)
        max_votes == MaxVotes(votes)
        max_signals == {k \in DOMAIN votes : votes[k] = max_votes}
    IN IF "buy" \in max_signals THEN "buy"
       ELSE IF "sell" \in max_signals THEN "sell"
       ELSE "hold"

RECURSIVE GenerateSignals(_, _)

\* Lines 111-152.  With no sub-strategy the input is returned as it is
\* (no signal_action column is added).  The strategy_<i>_signal columns are
\* kept as one column "strategy_signals" holding, per sub-strategy, its
\* signal column.  (buy_signals and sell_signals of lines 117-127 are
\* counted and never read.)
CombinedGenerateSignals(self, d) ==
    IF self.strategies = <<>> THEN d
    ELSE LET strategy_signals ==
                 Column([s \in 1..Len(self.strategies) |->
                     GenerateSignals(self.strategies[s], d)["signal_action"]])
             action ==
                 Column([i \in 1..NRows(d) |->
                     MajorityVote(Column([s \in 1..Len(self.strategies) |->
                                             strategy_signals[s][i]]))])
         IN WithColumn(WithColumn(d, "strategy_signals", strategy_signals),
                       "signal_action", action)

\* strategy.generate_signals(data): dispatch on the object's class.
GenerateSignals(self, d) ==
    IF self.type = "MACDStrategy" THEN MACDGenerateSignals(self, d)
    ELSE IF self.type = "RSIStrategy" THEN RSIGenerateSignals(self, d)
    ELSE CombinedGenerateSignals(self, d)

-----
(* Inputs of the signal engine.                                            *)

DefaultOversold == 30
DefaultOverbought == 70

\* EMA spans given to MACDStrategy (alpha = 1 and alpha = 1/2).
Spans == {1, 3}
Oversolds == {DefaultOversold, 50}
Overboughts == {50, DefaultOverbought}

SeqsUpTo(S, n) == UNION {[1..k -> S] : k \in 1..n}

BarFrames ==
    {[c \in {"close"} |-> closes] :
        closes \in SeqsUpTo({Num(p) : p \in 1..MaxPrice}, MaxBars)}

MACDStrategies ==
    {MACDStrategy(f, s, g) : f \in Spans, s \in Spans, g \in Spans}

RSIStrategies ==
    {RSIStrategy(p, os, ob) :
        p \in 1..MaxPeriod, os \in Oversolds, ob \in Overboughts}

\* What add_strategy is given: a MACD, the MACD with its EMAs swapped (it
\* crosses the other way on the same bars), and an RSI whose period lets it
\* cross a threshold within MaxBars bars.
SubStrategies ==
    {MACDStrategy(1, 3, 3), MACDStrategy(3, 1, 3),
     RSIStrategy(1, DefaultOversold, DefaultOverbought)}

-----------------------------------------------------------------------------
(* The signal engine as a state machine: a strategy object is built, then  *)
(* generate_signals is called on it once.                                  *)

\* A TradeExecutor and its RiskManager as constructed, no call made.
LiveIdle ==
    /\ active_orders = <<>>
    /\ trade_history = <<>>
    /\ position_sizes = <<>>
    /\ last_call = [op |-> "none"]
    /\ running = FALSE
    /\ iterations = 0
    /\ processed = <<>>
    /\ shutdowns = 0

BacktestIdle ==
    /\ df = NoResult
    /\ initial_capital = 0
    /\ capital = 0
    /\ position = 0
    /\ entry_price = Unbound
    /\ trades = <<>>
    /\ row = 0
    /\ result = NoResult
    /\ symbol = NoResult
    /\ results = <<>>
    /\ next_symbol = 0
    /\ report = NoResult

InitSignals ==
    /\ data \in BarFrames
    /\ strategy \in MACDStrategies \cup RSIStrategies
                    \cup {CombinedStrategy(<<>>)}
    /\ out = NoResult
    /\ pc = "strategy_ready"
    /\ BacktestIdle
    /\ LiveIdle

\* CombinedStrategy.add_strategy
AddStrategy(s) ==
    /\ pc = "strategy_ready"
    /\ strategy.type = "CombinedStrategy"
    /\ Len(strategy.strategies) < MaxStrategies
    /\ strategy' = [strategy EXCEPT !.strategies = Append(@, s)]
    /\ UNCHANGED <<data, out, pc, backtestVars, liveVars>>

CallMACD ==
    /\ pc = "strategy_ready"
    /\ strategy.type = "MACDStrategy"
    /\ out' = MACDGenerateSignals(strategy, data)
    /\ pc' = "strategy_done"
    /\ UNCHANGED <<data, strategy, backtestVars, liveVars>>

CallRSI ==
    /\ pc = "strategy_ready"
    /\ strategy.type = "RSIStrategy"
    /\ out' = RSIGenerateSignals(strategy, data)
    /\ pc' = "strategy_done"
    /\ UNCHANGED <<data, strategy, backtestVars, liveVars>>

CallCombined ==
    /\ pc = "strategy_ready"
    /\ strategy.type = "CombinedStrategy"
    /\ out' = CombinedGenerateSignals(strategy, data)
    /\ pc' = "strategy_done"
    /\ UNCHANGED <<data, strategy, backtestVars, liveVars>>

NextSignals ==
    \/ \E s \in SubStrategies : AddStrategy(s)
    \/ CallMACD
    \/ CallRSI
    \/ CallCombined

SpecSignals == InitSignals /\ [][NextSignals]_vars

-----------------------------------------------------------------------------
(* Backtester.run_backtest.                                                *)

DefaultInitialCapital == 10000

\* Closes of the simulated bars.
BacktestPrices == {90, 100, 110, 120}

InitialCapitals == {DefaultInitialCapital, 500}

\* A change taken relative to the current row instead of the previous one.
PctChangeOverCurrent(col) ==
    Column([i \in 1..Len(col) |->
               IF i = 1 THEN NaN
               ELSE FDiv(FSub(col[i], col[i - 1]), col[i])])

\* Series.pct_change(): the first row is NaN, row i is col[i]/col[i-1] - 1.
PctChange(col) ==
    Column([i \in 1..Len(col) |->
               IF i = 1 THEN NaN
               ELSE FSub(FDiv(col[i], col[i - 1]), Num(1))])

SeqsOf(S, n) == [1..n -> S]

\* The bar interval (self.timeframe), in hours.
BarHours == 12

\* The DatetimeIndex of n bars, a timestamp being a number of hours.
BarIndex(n) == Column([i \in 1..n |-> (i - 1) * BarHours])

\* The frame strategy.generate_signals hands to the simulation: positive
\* closes and one signal per bar.  The signal of row 0 is hold, as it is for
\* every strategy of the repository, and the loop never reads it.
SignalFrame(closes, signals) ==
    [index |-> BarIndex(Len(closes)),
     close |-> Column([i \in 1..Len(closes) |-> Num(closes[i])]),
     signal_action |-> <<"hold">> \o signals]

\* Config.SYMBOLS, the default of Backtester.symbols.
Symbols == <<"BTC-USDT", "ETH-USDT">>

\* dict[key] = value: a present key keeps its place, a new one goes last.
DictSet(dict, key, value) ==
    IF \E k \in 1..Len(dict) : dict[k].key = key
    THEN [k \in 1..Len(dict) |->
             IF dict[k].key = key THEN [key |-> key, value |-> value]
             ELSE dict[k]]
    ELSE Append(dict, [key |-> key, value |-> value])

DictKeys(dict) == {dict[k].key : k \in 1..Len(dict)}

StrategyIdle ==
    /\ data = NoResult
    /\ strategy = NoResult
    /\ out = NoResult

\* Lines 60-83: the state on entry of the loop.
InitBacktest ==
    /\ initial_capital \in InitialCapitals
    /\ \E n \in 1..MaxBacktestBars :
           \E closes \in SeqsOf(BacktestPrices, n),
              signals \in SeqsOf({"buy", "sell", "hold"}, n - 1) :
               LET frame == SignalFrame(closes, signals)
               IN df = WithColumn(WithColumn(frame,
                           "price_change", PctChange(frame["close"])),
                           "capital", Fill(n, Num(initial_capital)))
    /\ capital = Num(initial_capital)
    /\ position = 0
    /\ entry_price = Unbound
    /\ trades = <<>>
    /\ row = 1
    /\ result = NoResult
    /\ symbol = Symbols[1]
    /\ results = <<>>
    /\ next_symbol = 0
    /\ report = NoResult
    /\ pc = "backtest_loop"
    /\ StrategyIdle
    /\ LiveIdle

\* The price change applied whether or not a position is open.
MarkToMarketAlways(cap, pos, price_change) ==
    FMul(cap, FAdd(Num(1), price_change))

\* Lines 95-97: the value of an open long position follows the close.
MarkToMarket(cap, pos, price_change) ==
    IF pos > 0 THEN FMul(cap, FAdd(Num(1), price_change)) ELSE cap

\* The profit with entry and exit exchanged.
ProfitPctInverted(exit_price, entry) ==
    FMul(FSub(FDiv(entry, exit_price), Num(1)), Num(100))

\* Line 120
ProfitPct(exit_price, entry) ==
    FMul(FSub(FDiv(exit_price, entry), Num(1)), Num(100))

\* df.at[label, column] = value, the label being that of row r (0-based).
AtAssign(frame, r, column, value) ==
    [frame EXCEPT ![column] = [@ EXCEPT ![r + 1] = value]]

\* The loop body with the signal acted on before the price change is applied.
BacktestStepTradeFirst ==
    /\ pc = "backtest_loop"
    /\ row < NRows(df)
    /\ LET signal == df["signal_action"][row + 1]
           price == df["close"][row + 1]
           date == df["index"][row + 1]
           marked == MarkToMarket(capital, position',
                                  df["price_change"][row + 1])
       IN /\ IF signal = "buy" /\ position = 0
             THEN /\ position' = 1
                  /\ entry_price' = price
                  /\ trades' = Append(trades,
                         [type |-> "buy", date |-> date, price |-> price,
                          capital |-> capital])
             ELSE IF signal = "sell" /\ position = 1
             THEN /\ position' = 0
                  /\ trades' = Append(trades,
                         [type |-> "sell", date |-> date, price |-> price,
                          capital |-> capital,
                          profit_pct |-> ProfitPct(price, entry_price)])
                  /\ UNCHANGED entry_price
             ELSE UNCHANGED <<position, entry_price, trades>>
          /\ capital' = marked
          /\ df' = AtAssign(df, row, "capital", marked)
    /\ row' = row + 1
    /\ UNCHANGED <<initial_capital, result, symbol, results, next_symbol,
                   report, pc, strategyVars, liveVars>>

\* The loop body with a buy acted on whatever the position.
BacktestStepBuyAlways ==
    /\ pc = "backtest_loop"
    /\ row < NRows(df)
    /\ LET signal == df["signal_action"][row + 1]
           price == df["close"][row + 1]
           date == df["index"][row + 1]
           marked == MarkToMarket(capital, position,
                                  df["price_change"][row + 1])
       IN /\ capital' = marked
          /\ IF signal = "buy"
             THEN /\ position' = 1
                  /\ entry_price' = price
                  /\ trades' = Append(trades,
                         [type |-> "buy", date |-> date, price |-> price,
                          capital |-> marked])
             ELSE IF signal = "sell" /\ position = 1
             THEN /\ position' = 0
                  /\ trades' = Append(trades,
                         [type |-> "sell", date |-> date, price |-> price,
                          capital |-> marked,
                          profit_pct |-> ProfitPct(price, entry_price)])
                  /\ UNCHANGED entry_price
             ELSE UNCHANGED <<position, entry_price, trades>>
          /\ df' = AtAssign(df, row, "capital", marked)
    /\ row' = row + 1
    /\ UNCHANGED <<initial_capital, result, symbol, results, next_symbol,
                   report, pc, strategyVars, liveVars>>

\* Lines 86-133: one iteration of the loop, on row `row`.  A trade record's
\* date is the row's index label (current_row.name).
BacktestStep ==
    /\ pc = "backtest_loop"
    /\ row < NRows(df)
    /\ LET signal == df["signal_action"][row + 1]
           price == df["close"][row + 1]
           date == df["index"][row + 1]
           marked == MarkToMarket(capital, position,
                                  df["price_change"][row + 1])
       IN /\ capital' = marked
          /\ IF signal = "buy" /\ position = 0
             THEN /\ position' = 1
                  /\ entry_price' = price
                  /\ trades' = Append(trades,
                         [type |-> "buy", date |-> date, price |-> price,
                          capital |-> marked])
             ELSE IF signal = "sell" /\ position = 1
             THEN /\ position' = 0
                  /\ trades' = Append(trades,
                         [type |-> "sell", date |-> date, price |-> price,
                          capital |-> marked,
                          profit_pct |-> ProfitPct(price, entry_price)])
                  /\ UNCHANGED entry_price
             ELSE UNCHANGED <<position, entry_price, trades>>
          /\ df' = AtAssign(df, row, "capital", marked)
    /\ row' = row + 1
    /\ UNCHANGED <<initial_capital, result, symbol, results, next_symbol,
                   report, pc, strategyVars, liveVars>>

\* The values of a column that are not NaN, in row order (skipna).
Valid(col) == SelectSeq(col, LAMBDA x : ~IsNaN(x))

RECURSIVE SumRows(_, _)
\* The sum of rows 1..i of a column.
SumRows(col, i) ==
    IF i = 0 THEN Num(0) ELSE FAdd(SumRows(col, i - 1), col[i])

\* Series.mean(): the mean of the values that are not NaN, NaN without one.
Mean(col) ==
    LET v == Valid(col)
    IN IF v = <<>> THEN NaN ELSE FDiv(SumRows(v, Len(v)), Num(Len(v)))

\* Series.var(): the sample variance (ddof = 1) of the values that are not
\* NaN, NaN with fewer than two of them.  Series.std() is its square root.
Variance(col) ==
    LET v == Valid(col)
        avg == Mean(col)
        sqr == Column([i \in 1..Len(v) |->
                          FMul(FSub(avg, v[i]), FSub(avg, v[i]))])
    IN IF Len(v) < 2 THEN NaN
       ELSE FDiv(SumRows(sqr, Len(sqr)), Num(Len(v) - 1))

\* Series.std() > 0: the square root keeps NaN, 0 and the sign.
StdPositive(col) == FGt(Variance(col), Num(0))

RECURSIVE CumProdRows(_, _)
\* Rows 1..i of Series.cumprod(): a NaN row stays NaN and is skipped.
CumProdRows(col, i) ==
    IF i = 0 THEN <<>>
    ELSE LET before == CumProdRows(col, i - 1)
             v == Valid(before)
         IN Append(before,
                IF IsNaN(col[i]) THEN NaN
                ELSE IF v = <<>> THEN col[i]
                ELSE FMul(v[Len(v)], col[i]))

CumProd(col) == CumProdRows(col, Len(col))

\* Series.max() of every row, repeated on each row.
CumMaxGlobal(col) ==
    LET v == Valid(col)
        top == CHOOSE x \in {v[k] : k \in 1..Len(v)} :
                   \A k \in 1..Len(v) : FGe(x, v[k])
    IN Column([i \in 1..Len(col) |-> IF v = <<>> THEN NaN ELSE top])

RECURSIVE CumMaxRows(_, _)
\* Rows 1..i of Series.cummax(): a NaN row stays NaN and is skipped.
CumMaxRows(col, i) ==
    IF i = 0 THEN <<>>
    ELSE LET before == CumMaxRows(col, i - 1)
             v == Valid(before)
         IN Append(before,
                IF IsNaN(col[i]) THEN NaN
                ELSE IF v = <<>> THEN col[i]
                ELSE IF FGt(col[i], v[Len(v)]) THEN col[i]
                ELSE v[Len(v)])

CumMax(col) == CumMaxRows(col, Len(col))

\* Series.max(): the largest value that is not NaN, NaN without one.
ColMax(col) ==
    LET v == Valid(col)
    IN IF v = <<>> THEN NaN
       ELSE CHOOSE x \in {v[k] : k \in 1..Len(v)} :
                \A k \in 1..Len(v) : FGe(x, v[k])

\* Lines 136-144: the columns the metrics are read from.
MetricColumns(frame) ==
    LET returns == PctChange(frame["capital"])
        cumulative == CumProd(
            Column([i \in 1..Len(returns) |-> FAdd(Num(1), returns[i])]))
        cummax == CumMax(cumulative)
        drawdown == ColSub(cummax, cumulative)
    IN WithColumn(WithColumn(WithColumn(WithColumn(WithColumn(frame,
           "returns", returns),
           "cumulative_returns", cumulative),
           "cummax", cummax),
           "drawdown", drawdown),
           "drawdown_pct", ColDiv(drawdown, cummax))

\* Line 147
TotalReturn(capital_col, initial) ==
    FMul(FSub(FDiv(capital_col[Len(capital_col)], Num(initial)), Num(1)),
         Num(100))

\* The days between the first and the last bar, a started day counted.
DaysRoundedUp(index) == (index[Len(index)] - index[1] + 23) \div 24

\* Line 150: (df.index[-1] - df.index[0]).days, the whole days between the
\* first and the last bar.
Days(index) == (index[Len(index)] - index[1]) \div 24

\* Line 151.  The power of the first branch is kept as its operands: the
\* value is (base ^ exponent - 1) * 100.
AnnualReturn(total_return, days) ==
    IF days > 0
    THEN [base |-> FAdd(Num(1), FDiv(total_return, Num(100))),
          exponent |-> Rat(365, days)]
    ELSE Num(0)

\* Line 154.  The quotient of the first branch is kept as its operands: the
\* value is mean / sqrt(variance) * sqrt(252).
SharpeRatio(returns) ==
    IF StdPositive(returns)
    THEN [mean |-> Mean(returns), variance |-> Variance(returns)]
    ELSE Num(0)

\* Line 157
MaxDrawdown(drawdown_pct) == FMul(ColMax(drawdown_pct), Num(100))

\* Line 161: the sell records with a positive profit.
WinningTrades(trade_list) ==
    {k \in 1..Len(trade_list) :
        /\ trade_list[k].type = "sell"
        /\ FGt(trade_list[k].profit_pct, Num(0))}

\* Lines 160-164 divide by len(trades) // 2, which is 0 for a single record.
WinRateRaises(trade_list) ==
    trade_list # <<>> /\ Len(trade_list) \div 2 = 0

\* The division of line 162 without the test of line 160.
WinRateNoGuard(trade_list) ==
    FMul(FDiv(Num(Cardinality(WinningTrades(trade_list))),
              Num(Len(trade_list) \div 2)), Num(100))

\* Lines 160-164
WinRate(trade_list) ==
    IF trade_list # <<>>
    THEN FMul(Rat(Cardinality(WinningTrades(trade_list)),
                  Len(trade_list) \div 2), Num(100))
    ELSE Num(0)

\* Lines 135-180, the loop being over: the metrics and the result.  The
\* division of line 162 raises ZeroDivisionError when its divisor is 0, and
\* no result is made; otherwise line 179 stores the result under the symbol.
BacktestFinish ==
    /\ pc = "backtest_loop"
    /\ row >= NRows(df)
    /\ df' = MetricColumns(df)
    /\ IF WinRateRaises(trades)
       THEN /\ pc' = "backtest_raised"
            /\ UNCHANGED <<result, results>>
       ELSE /\ pc' = "backtest_done"
            /\ result' =
                   [symbol |-> symbol,
                    total_return |->
                        TotalReturn(df["capital"], initial_capital),
                    annual_return |->
                        AnnualReturn(
                            TotalReturn(df["capital"], initial_capital),
                            Days(df["index"])),
                    sharpe_ratio |-> SharpeRatio(df'["returns"]),
                    max_drawdown |-> MaxDrawdown(df'["drawdown_pct"]),
                    win_rate |-> WinRate(trades),
                    trades_count |-> Len(trades) \div 2,
                    trades |-> trades,
                    dataframe |-> df']
            /\ results' = DictSet(results, symbol, result')
    /\ UNCHANGED <<initial_capital, capital, position, entry_price,
                   trades, row, symbol, next_symbol, report, strategyVars, liveVars>>

NextBacktest ==
    \/ BacktestStep
    \/ BacktestFinish

SpecBacktest == InitBacktest /\ [][NextBacktest]_vars

-----------------------------------------------------------------------------
(* Backtester.run_all: a backtest of each symbol in turn.                  *)

MaxRunAllBars == 2

\* Closes of the bars of a batch.
RunAllPrices == {100, 110}

\* run_all(strategy_class=None, initial_capital=10000) on a new Backtester.
InitRunAll ==
    /\ initial_capital \in InitialCapitals
    /\ results = <<>>
    /\ next_symbol = 1
    /\ symbol = NoResult
    /\ df = NoResult
    /\ capital = 0
    /\ position = 0
    /\ entry_price = Unbound
    /\ trades = <<>>
    /\ row = 0
    /\ result = NoResult
    /\ report = NoResult
    /\ pc = "run_all_loop"
    /\ StrategyIdle
    /\ LiveIdle

\* Lines 184-194 and 60-67, 196: fetch_historical_data gives None or an empty
\* frame, run_backtest logs and returns None, and the loop goes on.
RunAllNoData ==
    /\ pc = "run_all_loop"
    /\ next_symbol \in 1..Len(Symbols)
    /\ symbol' = Symbols[next_symbol]
    /\ result' = NoResult
    /\ next_symbol' = next_symbol + 1
    /\ UNCHANGED <<df, initial_capital, capital, position, entry_price,
                   trades, row, results, report, pc, strategyVars, liveVars>>

\* Lines 184-194 and 60-83: the call of run_backtest on the next symbol, up
\* to the entry of its loop.  The strategy is of the class run_all was
\* given, so its signals are any series.
RunAllBacktest ==
    /\ pc = "run_all_loop"
    /\ next_symbol \in 1..Len(Symbols)
    /\ symbol' = Symbols[next_symbol]
    /\ \E n \in 1..MaxRunAllBars :
           \E closes \in SeqsOf(RunAllPrices, n),
              signals \in SeqsOf({"buy", "sell", "hold"}, n - 1) :
               LET frame == SignalFrame(closes, signals)
               IN df' = WithColumn(WithColumn(frame,
                            "price_change", PctChange(frame["close"])),
                            "capital", Fill(n, Num(initial_capital)))
    /\ capital' = Num(initial_capital)
    /\ position' = 0
    /\ entry_price' = Unbound
    /\ trades' = <<>>
    /\ row' = 1
    /\ result' = NoResult
    /\ pc' = "backtest_loop"
    /\ UNCHANGED <<initial_capital, results, next_symbol, report,
                   strategyVars, liveVars>>

\* Lines 194-201: run_backtest returned its result; run_all logs it and
\* takes the next symbol.
RunAllResume ==
    /\ pc = "backtest_done"
    /\ next_symbol >= 1
    /\ next_symbol' = next_symbol + 1
    /\ pc' = "run_all_loop"
    /\ UNCHANGED <<df, initial_capital, capital, position, entry_price,
                   trades, row, result, symbol, results, report,
                   strategyVars, liveVars>>

\* Line 203: the loop is over and run_all returns self.results.
RunAllReturn ==
    /\ pc = "run_all_loop"
    /\ next_symbol > Len(Symbols)
    /\ pc' = "run_all_done"
    /\ UNCHANGED <<backtestVars, strategyVars, liveVars>>

\* An exception raised in run_backtest is caught nowhere in run_all: with pc
\* at "backtest_raised" no action of the batch is enabled.
NextRunAll ==
    \/ RunAllNoData
    \/ RunAllBacktest
    \/ BacktestStep
    \/ BacktestFinish
    \/ RunAllResume
    \/ RunAllReturn

SpecRunAll == InitRunAll /\ [][NextRunAll]_vars

-----------------------------------------------------------------------------
(* Backtester.generate_report.                                             *)

\* A stored result, as far as generate_report reads it.
StoredResult(key, total, annual, sharpe, drawdown, win, count) ==
    [symbol |-> key, total_return |-> total, annual_return |-> annual,
     sharpe_ratio |-> sharpe, max_drawdown |-> drawdown, win_rate |-> win,
     trades_count |-> count]

\* Results run_backtest may have stored for a symbol: a winning round trip,
\* two losing ones, no trade, a single bar (its drawdown is NaN), a small
\* gain.
StoredResults(key) ==
    {StoredResult(key, Rat(21, 2), Num(150), Rat(3, 2), Num(5), Num(100), 1),
     StoredResult(key, Rat(-25, 3), Num(-60), Rat(-1, 3), Rat(25, 3),
                  Num(0), 2),
     StoredResult(key, Num(0), Num(0), Num(0), Num(0), Num(0), 0),
     StoredResult(key, Num(0), Num(0), Num(0), NaN, Num(0), 0),
     StoredResult(key, Rat(1, 8), Num(2), Rat(1, 4), Rat(1, 2), Num(50), 2)}

\* The dicts self.results may be: some of the symbols, in any order of
\* insertion, each with a result of its own.
ResultDicts ==
    LET entries == UNION {{[key |-> Symbols[k], value |-> r] :
                             r \in StoredResults(Symbols[k])} :
                          k \in 1..Len(Symbols)}
    IN UNION {{d \in [1..n -> entries] :
                  \A i, j \in 1..n : d[i].key = d[j].key => i = j} :
              n \in 0..Len(Symbols)}

\* f"{x:.2f}": two decimals, a tie going to the even digit (a tie of the
\* model is a value the binary float holds exactly).
Format2f(x) ==
    IF IsNaN(x) THEN "nan"
    ELSE IF x = PosInf THEN "inf"
    ELSE IF x = NegInf THEN "-inf"
    ELSE LET a == Abs(x.n) * 100
             q == a \div x.d
             r == a % x.d
             h == IF 2 * r > x.d \/ (2 * r = x.d /\ q % 2 = 1)
                  THEN q + 1 ELSE q
         IN (IF x.n < 0 THEN "-" ELSE "") \o ToString(h \div 100) \o "."
            \o (IF h % 100 < 10 THEN "0" ELSE "") \o ToString(h % 100)

\* Lines 217-226: the row of one symbol in the summary table.
SummaryRow(key, res) ==
    ("Symbol" :> key)
    @@ ("Return (%)" :> Format2f(res.total_return))
    @@ ("Annual (%)" :> Format2f(res.annual_return))
    @@ ("Sharpe" :> Format2f(res.sharpe_ratio))
    @@ ("Max DD (%)" :> Format2f(res.max_drawdown))
    @@ ("Win Rate (%)" :> Format2f(res.win_rate))
    @@ ("Trades" :> res.trades_count)

\* The test of line 207 left out.
ResultsEmptyNever(dict) == FALSE

\* Line 207: `not self.results`.
ResultsEmpty(dict) == dict = <<>>

\* The values of one metric, in the order of the dict.
MetricValues(dict, metric) == [k \in 1..Len(dict) |-> dict[k].value[metric]]

\* The sum of a metric, not divided by the number of results.
Total(dict, metric) ==
    LET values == MetricValues(dict, metric)
    IN SumRows(values, Len(values))

\* Lines 248-251: sum(res[metric] for res in self.results.values()) /
\* len(self.results).
Average(dict, metric) ==
    LET values == MetricValues(dict, metric)
    IN FDiv(SumRows(values, Len(values)), Num(Len(dict)))

\* The divisions of lines 248-251 raise ZeroDivisionError on an empty dict.
AverageRaises(dict) == Len(dict) = 0

\* The text returned at line 209.
NoResultsAvailable == [text |-> "No results available"]

\* generate_report is called on a Backtester holding some results.
InitReport ==
    /\ results \in ResultDicts
    /\ report = NoResult
    /\ pc = "report_ready"
    /\ df = NoResult
    /\ initial_capital = 0
    /\ capital = 0
    /\ position = 0
    /\ entry_price = Unbound
    /\ trades = <<>>
    /\ row = 0
    /\ result = NoResult
    /\ symbol = NoResult
    /\ next_symbol = 0
    /\ StrategyIdle
    /\ LiveIdle

\* Lines 205-259.  The text of a report is kept as its parts: the rows of
\* the table, and the lines of the overall performance by their label.
GenerateReport ==
    /\ pc = "report_ready"
    /\ IF ResultsEmpty(results)
       THEN /\ report' = NoResultsAvailable
            /\ pc' = "report_done"
       ELSE IF AverageRaises(results)
       THEN /\ pc' = "report_raised"
            /\ UNCHANGED report
       ELSE /\ report' =
                   [summary |->
                        [k \in 1..Len(results) |->
                            SummaryRow(results[k].key, results[k].value)],
                    overall |->
                        ("Average Return" :>
                            Format2f(Average(results, "total_return"))
                            \o "%")
                        @@ ("Average Sharpe Ratio" :>
                            Format2f(Average(results, "sharpe_ratio")))
                        @@ ("Average Max Drawdown" :>
                            Format2f(Average(results, "max_drawdown"))
                            \o "%")
                        @@ ("Average Win Rate" :>
                            Format2f(Average(results, "win_rate")) \o "%")]
            /\ pc' = "report_done"
    /\ UNCHANGED <<df, initial_capital, capital, position, entry_price,
                   trades, row, result, symbol, results, next_symbol,
                   strategyVars, liveVars>>

NextReport == GenerateReport

SpecReport == InitReport /\ [][NextReport]_vars

-----------------------------------------------------------------------------
(* Live trading: TradeExecutor and its RiskManager.  An order is the dict  *)
(* execute_trade builds; the same dict object is stored in active_orders   *)
(* and appended to trade_history, so active_orders maps an order id to the *)
(* place of its dict in trade_history and a change of status made through  *)
(* active_orders shows in trade_history.  The dict's timestamp is left     *)
(* out.  The exchange gives every accepted order a new id.                 *)

MaxOrders == 2

MAX_POSITION_SIZE == Rat(1, 10)
STOP_LOSS_PERCENT == Rat(1, 50)
TAKE_PROFIT_PERCENT == Rat(1, 20)

NoValue == [none |-> TRUE]      \* None where a number may stand
Raised == [raised |-> TRUE]     \* the call raised an exception

\* What Python takes as false in "if not x" / "x or y": None and zero.
Falsy(x) == x = NoValue \/ x = Num(0)

\* dict.get(key, default)
DictGet(dict, key, default) ==
    IF \E k \in 1..Len(dict) : dict[k].key = key
    THEN dict[CHOOSE k \in 1..Len(dict) : dict[k].key = key].value
    ELSE default

\* del dict[key]
DictDel(dict, key) ==
    SelectSeq(dict, LAMBDA e : e.key # key)

CalculatePositionSize(available_balance, price) ==
    LET max_position == FMul(available_balance, MAX_POSITION_SIZE)
    IN IF FGt(price, Num(0)) THEN FDiv(max_position, price) ELSE Num(0)

\* check_risk_limits: TRUE, FALSE, or Raised when the ratio divides by 0.
CheckRiskLimits(sizes, sym, action, price, size, available_balance) ==
    LET current_exposure == DictGet(sizes, sym, Num(0))
        new_exposure ==
            IF action = "buy" THEN FAdd(current_exposure, size)
            ELSE IF action = "sell" THEN FSub(current_exposure, size)
            ELSE current_exposure
        position_value == FMul(new_exposure, price)
        denominator == FAdd(available_balance, position_value)
    IN IF denominator = Num(0) THEN Raised
       ELSE [ok |-> ~FGt(FDiv(position_value, denominator),
                         MAX_POSITION_SIZE)]

CalculateStopLoss(entry, position_type) ==
    IF position_type = "long"
    THEN FMul(entry, FSub(Num(1), STOP_LOSS_PERCENT))
    ELSE FMul(entry, FAdd(Num(1), STOP_LOSS_PERCENT))

CalculateTakeProfit(entry, position_type) ==
    IF position_type = "long"
    THEN FMul(entry, FAdd(Num(1), TAKE_PROFIT_PERCENT))
    ELSE FMul(entry, FSub(Num(1), TAKE_PROFIT_PERCENT))

UpdatePosition(sizes, sym, size, action) ==
    LET current_size == DictGet(sizes, sym, Num(0))
    IN IF action = "buy"
       THEN DictSet(sizes, sym, FAdd(current_size, size))
       ELSE IF action = "sell"
       THEN DictSet(sizes, sym, FSub(current_size, size))
       ELSE sizes

\* What the exchange and the account can answer.
LatestPrices == {NoValue, Num(100)}
Balances == {Num(0), Num(1000)}
Responses == {"0", "1", "raised"}   \* code '0', another code, exception
OrderStates == {"live", "filled", "canceled"}
OrderSizes == {NoValue, Num(1)}
TradeActions == {"buy", "sell", "hold"}
SymbolSet == {Symbols[k] : k \in 1..Len(Symbols)}
TradedSymbols == {Symbols[1]}       \* the symbols orders are placed for
OrderIds == {ToString(k) : k \in 1..(MaxOrders + 1)}

\* What the account and the exchange answer during one execute_trade: the
\* latest price, the balance at each of its two reads, the order response.
Environments ==
    [latest : LatestPrices, balance1 : Balances, balance2 : Balances,
     response : Responses]

\* The state a call of execute_trade leaves and the value it returns.
Unchanged(st, contacted) ==
    [returned |-> NoResult, active_orders |-> st.active_orders,
     trade_history |-> st.trade_history,
     position_sizes |-> st.position_sizes,
     size |-> NoValue, contacted |-> contacted]

\* The TradeExecutor and its RiskManager as they stand.
Executor ==
    [active_orders |-> active_orders, trade_history |-> trade_history,
     position_sizes |-> position_sizes]

\* execute_trade with the position updated before the order is placed.
ExecuteTradeUpdateFirst(st, sym, action, order_type, size, price, env) ==
    LET current_price == IF Falsy(price) THEN env.latest ELSE price
        size2 == IF Falsy(size)
                 THEN CalculatePositionSize(env.balance1, current_price)
                 ELSE size
        risk == CheckRiskLimits(st.position_sizes, sym, action,
                                current_price, size2, env.balance2)
        order_id == ToString(Len(st.trade_history) + 1)
        order_info ==
            [id |-> order_id, symbol |-> sym, action |-> action,
             type |-> order_type, size |-> size2,
             price |-> IF order_type = "limit" THEN price
                       ELSE current_price,
             status |-> "placed"]
        updated == UpdatePosition(st.position_sizes, sym, size2, action)
    IN IF action \notin {"buy", "sell"} THEN Unchanged(st, FALSE)
       ELSE IF current_price = Raised \/ Falsy(current_price)
       THEN Unchanged(st, FALSE)
       ELSE IF FLe(size2, Num(0)) THEN Unchanged(st, FALSE)
       ELSE IF risk = Raised THEN Unchanged(st, FALSE)
       ELSE IF ~risk.ok THEN Unchanged(st, FALSE)
       ELSE IF env.response # "0"
       THEN [Unchanged(st, TRUE) EXCEPT !.position_sizes = updated]
       ELSE [returned |-> order_id,
             active_orders |->
                 DictSet(st.active_orders, order_id,
                         Len(st.trade_history) + 1),
             trade_history |-> Append(st.trade_history, order_info),
             position_sizes |-> updated,
             size |-> size2, contacted |-> TRUE]

ExecuteTrade(st, sym, action, order_type, size, price, env) ==
    LET current_price == IF Falsy(price) THEN env.latest ELSE price
        size2 == IF Falsy(size)
                 THEN CalculatePositionSize(env.balance1, current_price)
                 ELSE size
        risk == CheckRiskLimits(st.position_sizes, sym, action,
                                current_price, size2, env.balance2)
        order_id == ToString(Len(st.trade_history) + 1)
        order_info ==
            [id |-> order_id, symbol |-> sym, action |-> action,
             type |-> order_type, size |-> size2,
             price |-> IF order_type = "limit" THEN price
                       ELSE current_price,
             status |-> "placed"]
    IN IF action \notin {"buy", "sell"} THEN Unchanged(st, FALSE)
       ELSE IF current_price = Raised \/ Falsy(current_price)
       THEN Unchanged(st, FALSE)
       ELSE IF FLe(size2, Num(0)) THEN Unchanged(st, FALSE)
       ELSE IF risk = Raised THEN Unchanged(st, FALSE)
       ELSE IF ~risk.ok THEN Unchanged(st, FALSE)
       ELSE IF env.response # "0" THEN Unchanged(st, TRUE)
       ELSE [returned |-> order_id,
             active_orders |->
                 DictSet(st.active_orders, order_id,
                         Len(st.trade_history) + 1),
             trade_history |-> Append(st.trade_history, order_info),
             position_sizes |->
                 UpdatePosition(st.position_sizes, sym, size2, action),
             size |-> size2, contacted |-> TRUE]

\* active_orders[order_id][key] = value, on the dict trade_history shares.
SetOrderField(history, active, order_id, key, value) ==
    LET at == DictGet(active, order_id, 0)
        order_info == history[at]
    IN Column([k \in 1..Len(history) |->
                  IF k = at
                  THEN (key :> value) @@ [f \in DOMAIN order_info \ {key}
                                             |-> order_info[f]]
                  ELSE history[k]])

\* A TradeExecutor as constructed, on an account with no position.
InitExecutor ==
    /\ pc = "executor"
    /\ LiveIdle
    /\ BacktestIdle
    /\ StrategyIdle

\* A call of execute_trade for a market order, as process_symbol makes it.
ExecuteTradeCall ==
    /\ pc = "executor"
    /\ Len(trade_history) < MaxOrders
    /\ \E sym \in TradedSymbols, action \in TradeActions,
          size \in OrderSizes, env \in Environments :
          LET r == ExecuteTrade(Executor, sym, action, "market", size,
                                NoValue, env)
          IN /\ active_orders' = r.active_orders
             /\ trade_history' = r.trade_history
             /\ position_sizes' = r.position_sizes
             /\ last_call' = [op |-> "execute_trade",
                              returned |-> r.returned,
                              contacted |-> r.contacted]
    /\ UNCHANGED <<pc, botVars, backtestVars, strategyVars>>

\* place_stop_loss_order / place_take_profit_order: a limit order at the
\* computed price, marked with its kind once it is placed.
PlaceProtectiveOrder(st, kind, sym, entry, position_type, size, env) ==
    LET stop_price ==
            IF kind = "stop_loss"
            THEN CalculateStopLoss(entry, position_type)
            ELSE CalculateTakeProfit(entry, position_type)
        action == IF position_type = "long" THEN "sell" ELSE "buy"
        r == ExecuteTrade(st, sym, action, "limit", size, stop_price, env)
    IN IF r.returned # NoResult
       THEN [r EXCEPT !.trade_history =
                SetOrderField(r.trade_history, r.active_orders, r.returned,
                              "order_type", kind)]
       ELSE r

\* check_order_status: the exchange is asked only about an active order;
\* a 'filled' or 'canceled' answer takes the order out of active_orders.
CheckOrderStatus(order_id, response, state) ==
    IF order_id \notin DictKeys(active_orders)
    THEN [returned |-> NoResult, active_orders |-> active_orders,
          trade_history |-> trade_history, contacted |-> FALSE]
    ELSE IF response # "0"
    THEN [returned |-> NoResult, active_orders |-> active_orders,
          trade_history |-> trade_history, contacted |-> TRUE]
    ELSE [returned |-> state,
          active_orders |->
              IF state \in {"filled", "canceled"}
              THEN DictDel(active_orders, order_id)
              ELSE active_orders,
          trade_history |->
              SetOrderField(trade_history, active_orders, order_id,
                            "status", state),
          contacted |-> TRUE]

CheckOrderStatusCall ==
    /\ pc = "executor"
    /\ \E order_id \in OrderIds, response \in Responses,
          state \in OrderStates :
          LET r == CheckOrderStatus(order_id, response, state)
          IN /\ active_orders' = r.active_orders
             /\ trade_history' = r.trade_history
             /\ last_call' = [op |-> "check_order_status",
                              order_id |-> order_id,
                              returned |-> r.returned,
                              contacted |-> r.contacted]
    /\ UNCHANGED <<position_sizes, pc, botVars, backtestVars, strategyVars>>

\* cancel_order that drops the order from active_orders at once.
CancelOrderDropping(history, active, order_id, response) ==
    IF order_id \notin DictKeys(active)
    THEN [returned |-> FALSE, trade_history |-> history,
          active_orders |-> active, contacted |-> FALSE]
    ELSE IF response # "0"
    THEN [returned |-> FALSE, trade_history |-> history,
          active_orders |-> active, contacted |-> TRUE]
    ELSE [returned |-> TRUE,
          trade_history |->
              SetOrderField(history, active, order_id, "status",
                            "canceling"),
          active_orders |-> DictDel(active, order_id),
          contacted |-> TRUE]

\* cancel_order: an accepted request only marks the order 'canceling'.
CancelOrder(history, active, order_id, response) ==
    IF order_id \notin DictKeys(active)
    THEN [returned |-> FALSE, trade_history |-> history,
          active_orders |-> active, contacted |-> FALSE]
    ELSE IF response # "0"
    THEN [returned |-> FALSE, trade_history |-> history,
          active_orders |-> active, contacted |-> TRUE]
    ELSE [returned |-> TRUE,
          trade_history |->
              SetOrderField(history, active, order_id, "status",
                            "canceling"),
          active_orders |-> active,
          contacted |-> TRUE]

CancelOrderCall ==
    /\ pc = "executor"
    /\ \E order_id \in OrderIds, response \in Responses :
          LET r == CancelOrder(trade_history, active_orders, order_id,
                               response)
          IN /\ active_orders' = r.active_orders
             /\ trade_history' = r.trade_history
             /\ last_call' = [op |-> "cancel_order",
                              order_id |-> order_id,
                              returned |-> r.returned,
                              contacted |-> r.contacted]
    /\ UNCHANGED <<position_sizes, pc, botVars, backtestVars, strategyVars>>

\* The ids cancel_all_orders lists before it cancels any: every active
\* order, or those of one symbol.
OrderIdsOf(history, active, sym) ==
    LET chosen == SelectSeq(active, LAMBDA e :
                     sym = NoResult \/ history[e.value].symbol = sym)
    IN Column([k \in 1..Len(chosen) |-> chosen[k].key])

\* cancel_all_orders: cancel_order on each listed id in turn; the result
\* pairs each id with what its cancel_order returned.
RECURSIVE CancelEach(_, _, _, _, _)
CancelEach(history, active, order_ids, responses, done) ==
    IF order_ids = <<>>
    THEN [returned |-> done, trade_history |-> history,
          active_orders |-> active]
    ELSE CHOOSE all \in
             {CancelEach(r.trade_history, r.active_orders, rest, responses,
                         Append(done, [order_id |-> order_id,
                                       result |-> r.returned,
                                       contacted |-> r.contacted])) :
              order_id \in {Head(order_ids)}, rest \in {Tail(order_ids)},
              r \in {CancelOrder(history, active, Head(order_ids),
                                 responses[Head(order_ids)])}} : TRUE

CancelAllOrders(history, active, sym, responses) ==
    CHOOSE all \in
        {CancelEach(history, active, order_ids, responses, <<>>) :
         order_ids \in {OrderIdsOf(history, active, sym)}} : TRUE

CancelAllOrdersCall ==
    /\ pc = "executor"
    /\ \E sym \in SymbolSet \cup {NoResult},
          responses \in [DictKeys(active_orders) -> Responses] :
          \E r \in {CancelAllOrders(trade_history, active_orders, sym,
                                     responses)} :
             /\ active_orders' = r.active_orders
             /\ trade_history' = r.trade_history
             /\ last_call' = [op |-> "cancel_all_orders",
                              symbol |-> sym, returned |-> r.returned]
    /\ UNCHANGED <<position_sizes, pc, botVars, backtestVars, strategyVars>>

NextExecutor ==
    \/ ExecuteTradeCall
    \/ CheckOrderStatusCall
    \/ CancelOrderCall
    \/ CancelAllOrdersCall

SpecExecutor == InitExecutor /\ [][NextExecutor]_vars

-----------------------------------------------------------------------------
(* Live trading: TradingBot.run.  The main thread runs initialize, the     *)
(* while loop (process_symbol for each symbol, then the monitor update,    *)
(* the hourly report and the sleep) and, from the finally clause,          *)
(* shutdown.  handle_shutdown is a signal handler: it can run between any  *)
(* two steps of the main thread, and since process_symbol never reads      *)
(* running, a signal inside process_symbol acts like one just before or    *)
(* after it.                                                               *)

MaxIterations == 2

\* What get_kline_data gives process_symbol: no rows, an exception, rows.
KlineAnswers == {"empty", "raised", "ok"}

\* The account and the exchange during one process_symbol call.
BotEnvironments ==
    [latest : LatestPrices, balance1 : {Num(1000)}, balance2 : {Num(1000)},
     response : Responses]

\* process_symbol before it places an order: whether it returns early
\* ("return"), raises inside its try ("raised") or goes on to trade.
ProcessSymbolPath(kline, latest_signal, latest_price, size) ==
    IF kline = "raised" THEN "raised"
    ELSE IF kline = "empty" THEN "return"
    ELSE IF latest_signal \notin {"buy", "sell"} THEN "return"
    ELSE IF Falsy(latest_price) THEN "return"
    ELSE IF FLe(size, Num(0)) THEN "return"
    ELSE "trade"

\* A TradingBot as constructed: handlers registered, run not yet called.
InitBot ==
    /\ pc = "bot_constructed"
    /\ LiveIdle
    /\ BacktestIdle
    /\ StrategyIdle

\* run, up to the call of initialize.
RunStart ==
    /\ pc = "bot_constructed"
    /\ running' = TRUE
    /\ pc' = "bot_initialize"
    /\ UNCHANGED <<active_orders, trade_history, position_sizes, last_call,
                   iterations, processed, shutdowns, backtestVars,
                   strategyVars>>

\* initialize returns True, or False and run returns at once.
Initialize ==
    /\ pc = "bot_initialize"
    /\ \E ok \in BOOLEAN :
          pc' = IF ok THEN "bot_while" ELSE "bot_returned"
    /\ UNCHANGED <<liveVars, backtestVars, strategyVars>>

\* The while test that starts an iteration whatever running holds.
LoopTestAlways ==
    /\ pc = "bot_while"
    /\ iterations < MaxIterations
    /\ iterations' = iterations + 1
    /\ processed' = <<>>
    /\ pc' = "bot_for"
    /\ UNCHANGED <<active_orders, trade_history, position_sizes, last_call,
                   running, shutdowns, backtestVars, strategyVars>>

\* while self.running: a new iteration, or on to the finally clause.
LoopTest ==
    /\ pc = "bot_while"
    /\ IF running
       THEN /\ iterations < MaxIterations
            /\ iterations' = iterations + 1
            /\ processed' = <<>>
            /\ pc' = "bot_for"
       ELSE /\ pc' = "bot_finally"
            /\ UNCHANGED <<iterations, processed>>
    /\ UNCHANGED <<active_orders, trade_history, position_sizes, last_call,
                   running, shutdowns, backtestVars, strategyVars>>

\* The for loop's next process_symbol call, with the execute_trade,
\* place_stop_loss_order and place_take_profit_order calls it makes; an
\* exception raised inside it is caught inside it.
ProcessSymbolCall ==
    /\ pc = "bot_for"
    /\ Len(processed) < Len(Symbols)
    /\ \E kline \in KlineAnswers, latest_signal \in TradeActions,
          env \in BotEnvironments :
          LET sym == Symbols[Len(processed) + 1]
              latest_price == env.latest
              size == CalculatePositionSize(env.balance1, latest_price)
              path == ProcessSymbolPath(kline, latest_signal, latest_price,
                                        size)
          IN \E order \in {IF path = "trade"
                           THEN ExecuteTrade(Executor, sym, latest_signal,
                                             "market", size, NoValue, env)
                           ELSE Unchanged(Executor, FALSE)} :
             \E stop_loss \in {IF order.returned # NoResult
                                  /\ latest_signal = "buy"
                               THEN PlaceProtectiveOrder(order, "stop_loss",
                                        sym, latest_price, "long", size, env)
                               ELSE order} :
             \E take_profit \in {IF order.returned # NoResult
                                    /\ latest_signal = "buy"
                                 THEN PlaceProtectiveOrder(stop_loss,
                                          "take_profit", sym, latest_price,
                                          "long", size, env)
                                 ELSE order} :
                LET r == take_profit
                IN /\ active_orders' = r.active_orders
                   /\ trade_history' = r.trade_history
                   /\ position_sizes' = r.position_sizes
                   /\ processed' =
                          Append(processed, [symbol |-> sym,
                                             raised |-> path = "raised"])
                   /\ last_call' = [op |-> "process_symbol"]
    /\ UNCHANGED <<pc, running, iterations, shutdowns, backtestVars,
                   strategyVars>>

\* The rest of the iteration: update_metrics, the hourly report and the
\* sleep; an exception raised here ends the loop.
IterationEnd ==
    /\ pc = "bot_for"
    /\ Len(processed) = Len(Symbols)
    /\ \E raised \in BOOLEAN :
          pc' = IF raised THEN "bot_except" ELSE "bot_while"
    /\ UNCHANGED <<liveVars, backtestVars, strategyVars>>

\* except Exception: the error is logged.
LoopExcept ==
    /\ pc = "bot_except"
    /\ pc' = "bot_finally"
    /\ UNCHANGED <<liveVars, backtestVars, strategyVars>>

\* The exchange's answers to the cancel requests of one shutdown: one
\* answer to the first request and one to all the later ones.
ShutdownResponses(active) ==
    {[order_id \in DictKeys(active) |->
         IF order_id = active[1].key THEN first ELSE rest] :
     first \in Responses, rest \in Responses}

\* finally: shutdown, which cancels all active orders and reports.
Shutdown ==
    /\ pc = "bot_finally"
    /\ \E responses \in ShutdownResponses(active_orders) :
          \E r \in {CancelAllOrders(trade_history, active_orders, NoResult,
                                     responses)} :
             /\ active_orders' = r.active_orders
             /\ trade_history' = r.trade_history
             /\ last_call' = [op |-> "cancel_all_orders",
                              symbol |-> NoResult, returned |-> r.returned]
    /\ shutdowns' = shutdowns + 1
    /\ pc' = "bot_stopped"
    /\ UNCHANGED <<position_sizes, running, iterations, processed,
                   backtestVars, strategyVars>>

\* SIGINT or SIGTERM arrives while run is under way.
HandleShutdown ==
    /\ pc \in {"bot_initialize", "bot_while", "bot_for", "bot_except",
               "bot_finally", "bot_stopped"}
    /\ running' = FALSE
    /\ UNCHANGED <<active_orders, trade_history, position_sizes, last_call,
                   iterations, processed, shutdowns, pc, backtestVars,
                   strategyVars>>

\* The steps of the main thread.
MainThread ==
    \/ RunStart
    \/ Initialize
    \/ LoopTest
    \/ ProcessSymbolCall
    \/ IterationEnd
    \/ LoopExcept
    \/ Shutdown

NextBot == MainThread \/ HandleShutdown

SpecBot == InitBot /\ [][NextBot]_vars

\* The main thread is not starved: a step it can take, it takes.
SpecBotFair == SpecBot /\ WF_vars(MainThread)

-----------------------------------------------------------------------------
(* All parts together: a call of generate_signals on a strategy, a run of  *)
(* run_backtest on a frame of signals, a batch of run_all, or a call of    *)
(* generate_report.                                                        *)

Init ==
    \/ InitSignals
    \/ InitBacktest
    \/ InitRunAll
    \/ InitReport
    \/ InitExecutor
    \/ InitBot

Next ==
    \/ NextSignals
    \/ NextBacktest
    \/ NextRunAll
    \/ NextReport
    \/ NextExecutor
    \/ NextBot

Spec == Init /\ [][Next]_vars

-----------------------------------------------------------------------------
(* Properties of the signal engine.                                        *)

SignalsDone == pc = "strategy_done"

HasColumn(frame, name) == name \in DOMAIN frame

CombinedDone ==
    /\ SignalsDone
    /\ strategy.type = "CombinedStrategy"
    /\ strategy.strategies # <<>>

\* The number of sub-strategies whose signal on row i of out is kind.
VoteCount(kind, i) ==
    Cardinality({s \in 1..Len(out["strategy_signals"]) :
                    out["strategy_signals"][s][i] = kind})

\* C1: on every bar, for whatever the sub-strategies (one or more) voted,
\* CombinedStrategy emits buy if no kind has more votes than buy, otherwise
\* sell if no kind has more votes than sell, otherwise hold.
C1_MajorityTieBreak ==
    CombinedDone =>
        \A i \in 1..NRows(data) :
            LET b == VoteCount("buy", i)
                s == VoteCount("sell", i)
                h == VoteCount("hold", i)
            IN /\ b + s + h = Len(strategy.strategies)
               /\ out["signal_action"][i] =
                      IF b >= s /\ b >= h THEN "buy"
                      ELSE IF s >= h THEN "sell"
                      ELSE "hold"

\* A bar where buy, sell and hold have one vote each: buy is emitted.
C1_Witness ==
    /\ CombinedDone
    /\ \E i \in 1..NRows(data) :
           /\ VoteCount("buy", i) = 1
           /\ VoteCount("sell", i) = 1
           /\ VoteCount("hold", i) = 1
           /\ out["signal_action"][i] = "buy"

\* C2 as stated: all buy gives buy, all sell gives sell, and as many buy
\* votes as sell votes (both non-zero) gives buy whatever the hold votes.
C2_Original ==
    CombinedDone =>
        \A i \in 1..NRows(data) :
            LET b == VoteCount("buy", i)
                s == VoteCount("sell", i)
                n == Len(strategy.strategies)
            IN /\ b = n => out["signal_action"][i] = "buy"
               /\ s = n => out["signal_action"][i] = "sell"
               /\ (b = s /\ b > 0) => out["signal_action"][i] = "buy"

\* C2 (amended): all buy gives buy, all sell gives sell; as many buy votes
\* as sell votes (both non-zero) gives buy when the hold votes do not
\* outnumber them, and hold when they do.
C2_TieBreakLaw ==
    CombinedDone =>
        \A i \in 1..NRows(data) :
            LET b == VoteCount("buy", i)
                s == VoteCount("sell", i)
                h == VoteCount("hold", i)
                n == Len(strategy.strategies)
            IN /\ b = n => out["signal_action"][i] = "buy"
               /\ s = n => out["signal_action"][i] = "sell"
               /\ (b = s /\ b > 0 /\ h <= b) => out["signal_action"][i] = "buy"
               /\ (b = s /\ b > 0 /\ h > b) => out["signal_action"][i] = "hold"

\* One buy vote, one sell vote and two hold votes on a bar: hold is emitted.
C2_Witness ==
    /\ CombinedDone
    /\ \E i \in 1..NRows(data) :
           /\ VoteCount("buy", i) = 1
           /\ VoteCount("sell", i) = 1
           /\ VoteCount("hold", i) = 2
           /\ out["signal_action"][i] = "hold"

\* One signal per input bar, in the bars' order, the first one hold.
AlignedSignals ==
    /\ HasColumn(out, "signal_action")
    /\ HasColumn(out, "close")
    /\ out["close"] = data["close"]
    /\ Len(out["signal_action"]) = NRows(data)
    /\ out["signal_action"][1] = "hold"
    /\ \A i \in 1..Len(out["signal_action"]) :
           out["signal_action"][i] \in {"buy", "sell", "hold"}

\* C3 as stated: every strategy variant, a CombinedStrategy without
\* sub-strategies included, returns one signal per bar, the first one hold.
C3_Original ==
    (SignalsDone /\ NRows(data) >= 2) => AlignedSignals

\* C3 (amended): for two bars or more, MACDStrategy, RSIStrategy and a
\* CombinedStrategy of one or more sub-strategies return one signal per
\* bar, in the bars' order, the first one hold; a CombinedStrategy without
\* sub-strategies returns its input, which has no signal column.
C3_SignalPerBar ==
    (SignalsDone /\ NRows(data) >= 2) =>
        IF strategy.type = "CombinedStrategy" /\ strategy.strategies = <<>>
        THEN out = data /\ ~HasColumn(out, "signal_action")
        ELSE AlignedSignals

\* A MACD call on three bars that returned a buy and a sell after the hold.
C3_Witness ==
    /\ SignalsDone
    /\ strategy.type = "MACDStrategy"
    /\ NRows(data) = 3
    /\ out["signal_action"] = <<"hold", "buy", "sell">>

\* C4: MACDStrategy emits buy at bar i >= 1 exactly when macd[i] >
\* signal[i] and macd[i-1] <= signal[i-1], sell exactly when macd[i] <
\* signal[i] and macd[i-1] >= signal[i-1], hold on every other bar, and
\* the two conditions never hold on the same bar.
C4_MACDCross ==
    (SignalsDone /\ strategy.type = "MACDStrategy") =>
        \A i \in 1..NRows(data) :
            LET m == out["macd"]
                g == out["signal"]
                up == i >= 2 /\ FGt(m[i], g[i]) /\ FLe(m[i - 1], g[i - 1])
                down == i >= 2 /\ FLt(m[i], g[i]) /\ FGe(m[i - 1], g[i - 1])
            IN /\ IsFinite(m[i]) /\ IsFinite(g[i])
               /\ ~(up /\ down)
               /\ (out["signal_action"][i] = "buy") <=> up
               /\ (out["signal_action"][i] = "sell") <=> down
               /\ (out["signal_action"][i] = "hold") <=> (~up /\ ~down)

\* A buy on a bar whose previous bar had macd = signal, and a sell later.
C4_Witness ==
    /\ SignalsDone
    /\ strategy.type = "MACDStrategy"
    /\ NRows(data) >= 3
    /\ out["signal_action"][2] = "buy"
    /\ out["macd"][1] = out["signal"][1]
    /\ out["signal_action"][3] = "sell"

\* C5: for oversold < overbought, RSIStrategy emits buy at bar i exactly
\* when rsi[i-1] <= oversold and rsi[i] > oversold, sell exactly when
\* rsi[i-1] >= overbought and rsi[i] < overbought, and hold on every other
\* bar (a comparison with an undefined RSI is false).
C5_RSICross ==
    (/\ SignalsDone
     /\ strategy.type = "RSIStrategy"
     /\ strategy.oversold < strategy.overbought) =>
        \A i \in 1..NRows(data) :
            LET r == out["rsi"]
                os == Num(strategy.oversold)
                ob == Num(strategy.overbought)
                up == i >= 2 /\ FLe(r[i - 1], os) /\ FGt(r[i], os)
                down == i >= 2 /\ FGe(r[i - 1], ob) /\ FLt(r[i], ob)
            IN /\ (out["signal_action"][i] = "buy") <=> up
               /\ (out["signal_action"][i] = "sell") <=> down
               /\ (out["signal_action"][i] = "hold") <=> (~up /\ ~down)

\* A buy on a rebound out of the oversold zone.
C5_Witness ==
    /\ SignalsDone
    /\ strategy.type = "RSIStrategy"
    /\ strategy.oversold < strategy.overbought
    /\ \E i \in 2..NRows(data) :
           /\ out["signal_action"][i] = "buy"
           /\ FLe(out["rsi"][i - 1], Num(strategy.oversold))
           /\ FGt(out["rsi"][i], Num(strategy.oversold))

\* C6: RSIStrategy emits hold on every bar whose RSI, or whose previous
\* bar's RSI, is undefined; the first `period` bars are hold, and so is
\* every bar of a sequence shorter than the period.
C6_RSIUndefinedIsHold ==
    (SignalsDone /\ strategy.type = "RSIStrategy") =>
        \A i \in 1..NRows(data) :
            /\ (i = 1 \/ IsNaN(out["rsi"][i]) \/ IsNaN(out["rsi"][i - 1]))
                   => out["signal_action"][i] = "hold"
            /\ i <= strategy.period => out["signal_action"][i] = "hold"
            /\ i < strategy.period => IsNaN(out["rsi"][i])
            /\ NRows(data) < strategy.period
                   => out["signal_action"][i] = "hold"


\* Three bars under period 2: the two first are hold whatever the closes,
\* and the third one, the first whose RSI and previous RSI are both
\* defined, is a buy.
C6_Witness ==
    /\ SignalsDone
    /\ strategy.type = "RSIStrategy"
    /\ strategy.period = 2
    /\ NRows(data) = 3
    /\ IsNaN(out["rsi"][1])
    /\ ~IsNaN(out["rsi"][2])
    /\ out["signal_action"] = <<"hold", "hold", "buy">>

\* C7 as stated: on every bar with a full lookback window whose average
\* loss is 0, the RSI is 100, whatever the average gain, 0 included.
C7_ZeroLossIsHundred ==
    (SignalsDone /\ strategy.type = "RSIStrategy") =>
        \A i \in 1..NRows(data) :
            (i > strategy.period /\ out["avg_loss"][i] = Num(0))
                => out["rsi"][i] = Num(100)

\* What the code does hold to: with a zero average loss the RSI is 100
\* when the average gain is positive and NaN when it is 0 too.
C7_ZeroLossObserved ==
    (SignalsDone /\ strategy.type = "RSIStrategy") =>
        \A i \in 1..NRows(data) :
            (i >= strategy.period /\ out["avg_loss"][i] = Num(0))
                => /\ FGt(out["avg_gain"][i], Num(0))
                       => out["rsi"][i] = Num(100)
                   /\ out["avg_gain"][i] = Num(0) => IsNaN(out["rsi"][i])

\* The combination run_all and TradingBot build: a MACDStrategy, then an
\* RSIStrategy.
DefaultCombination ==
    /\ CombinedDone
    /\ Len(strategy.strategies) = 2
    /\ strategy.strategies[1].type = "MACDStrategy"
    /\ strategy.strategies[2].type = "RSIStrategy"

(* C23: CombinedStrategy emits hold on a bar only when the hold votes      *)
(* outnumber the buy votes and the sell votes.  For the combination of a   *)
(* MACD and an RSI strategy it emits buy whenever one of the two votes     *)
(* buy, even if the other votes sell; sell whenever none votes buy and one *)
(* votes sell; hold only when both vote hold.                              *)
C23_DefaultCombination ==
    /\ CombinedDone =>
           \A i \in 1..NRows(data) :
               out["signal_action"][i] = "hold" =>
                   /\ VoteCount("hold", i) > VoteCount("buy", i)
                   /\ VoteCount("hold", i) > VoteCount("sell", i)
    /\ DefaultCombination =>
           \A i \in 1..NRows(data) :
               LET macd == out["strategy_signals"][1][i]
                   rsi == out["strategy_signals"][2][i]
               IN out["signal_action"][i] =
                      IF macd = "buy" \/ rsi = "buy" THEN "buy"
                      ELSE IF macd = "sell" \/ rsi = "sell" THEN "sell"
                      ELSE "hold"

\* A bar of the MACD and RSI combination where the MACD votes buy while the
\* RSI votes sell, and buy is emitted.
C23_Witness ==
    /\ DefaultCombination
    /\ \E i \in 1..NRows(data) :
           /\ out["strategy_signals"][1][i] = "buy"
           /\ out["strategy_signals"][2][i] = "sell"
           /\ out["signal_action"][i] = "buy"

-----------------------------------------------------------------------------
(* Properties of the backtest simulation.                                  *)

BacktestDone == pc = "backtest_done"

\* The rows (1-based) of the simulated frame whose signal is kind.
SignalRows(kind) ==
    {i \in 1..NRows(df) : df["signal_action"][i] = kind}

\* C8: when no buy signal occurs in the signal series, the capital recorded
\* at every bar is initial_capital, the trade list is empty, and the result
\* has trades_count 0 (and a total return of 0).
C8_NoBuyKeepsCapital ==
    (pc \in {"backtest_loop", "backtest_done", "backtest_raised"}
         /\ SignalRows("buy") = {}) =>
        /\ \A i \in 1..NRows(df) : df["capital"][i] = Num(initial_capital)
        /\ capital = Num(initial_capital)
        /\ trades = <<>>
        /\ pc # "backtest_raised"
        /\ BacktestDone =>
               /\ result.trades_count = 0
               /\ result.trades = <<>>
               /\ result.total_return = Num(0)
               /\ result.dataframe["capital"] =
                      Fill(NRows(df), Num(initial_capital))

\* A finished run over changing closes with sell signals and no buy.
C8_Witness ==
    /\ BacktestDone
    /\ SignalRows("buy") = {}
    /\ SignalRows("sell") # {}
    /\ NRows(df) >= 3
    /\ \E i \in 2..NRows(df) : df["close"][i] # df["close"][i - 1]
    /\ result.trades_count = 0

\* Exactly one buy signal, followed later by exactly one sell signal, on
\* bars with the same close.
OneRoundTripAtSamePrice ==
    /\ Cardinality(SignalRows("buy")) = 1
    /\ Cardinality(SignalRows("sell")) = 1
    /\ \E b \in SignalRows("buy"), s \in SignalRows("sell") :
           b < s /\ df["close"][b] = df["close"][s]

ExampleRun ==
    /\ df["close"] = <<Num(100), Num(110), Num(90), Num(120)>>
    /\ df["signal_action"] = <<"hold", "buy", "hold", "sell">>
    /\ initial_capital = 10000

C11_NoTradesWinRateZero ==
    /\ (BacktestDone /\ trades = <<>>) =>
           /\ result.win_rate = Num(0)
           /\ IsFinite(result.win_rate)
           /\ result.trades_count = 0
    /\ (pc = "backtest_raised") => trades # <<>>

\* A finished run without a record although a sell was signalled.
C11_Witness ==
    /\ BacktestDone
    /\ trades = <<>>
    /\ NRows(df) >= 3
    /\ SignalRows("sell") # {}
    /\ result.win_rate = Num(0)

\* The divisor of line 162.
WinRateDivisor == Len(trades) \div 2

(* C12: for every signal series the win-rate derivation ends without a    *)
(* division by zero, and win_rate is 100 * (sell records with a positive   *)
(* profit) / floor(records / 2), a value between 0 and 100; so it is for   *)
(* a trade list made of one buy that was never closed.                     *)
C12_WinRateNeverFaults ==
    /\ pc # "backtest_raised"
    /\ BacktestDone =>
           /\ FGe(result.win_rate, Num(0))
           /\ FLe(result.win_rate, Num(100))
           /\ trades # <<>> =>
                  result.win_rate =
                      FMul(FDiv(Num(Cardinality(WinningTrades(trades))),
                                Num(WinRateDivisor)), Num(100))

\* The per-bar returns of the recorded capital that are defined: the value
\* of row i over that of row i-1, less 1.
CapitalReturns ==
    {FSub(FDiv(df["capital"][i], df["capital"][i - 1]), Num(1)) :
        i \in 2..NRows(df)}

(* C13: a finished run has annual_return = 0 when its first and last bar   *)
(* are less than one whole day apart, and sharpe_ratio = 0 when the        *)
(* standard deviation of the per-bar capital returns is not strictly       *)
(* positive: fewer than two returns (one or two bars), or returns that are *)
(* all equal (capital that never changes).                                 *)
C13_DegenerateMetricsAreZero ==
    BacktestDone =>
        /\ df["index"][NRows(df)] - df["index"][1] < 24 =>
               result.annual_return = Num(0)
        /\ Cardinality(CapitalReturns) <= 1 => result.sharpe_ratio = Num(0)
        /\ NRows(df) <= 2 => result.sharpe_ratio = Num(0)
        /\ (\A i \in 1..NRows(df) : df["capital"][i] = df["capital"][1]) =>
               result.sharpe_ratio = Num(0)

\* A finished run over two bars half a day apart.
C13_Witness ==
    /\ BacktestDone
    /\ NRows(df) = 2
    /\ df["index"][2] - df["index"][1] = BarHours
    /\ IsNaN(df["returns"][1])
    /\ df["returns"][2] = Num(0)
    /\ result.annual_return = Num(0)
    /\ result.sharpe_ratio = Num(0)

\* The recorded capital never decreases from one bar to the next.
CapitalNeverDecreases ==
    \A i \in 2..NRows(df) : FGe(df["capital"][i], df["capital"][i - 1])

(* C14: a finished run over two bars or more (closes are positive) has a   *)
(* max_drawdown between 0 and 100, and exactly 0 when the recorded capital *)
(* never decreases from one bar to the next.                               *)
C14_DrawdownRange ==
    (BacktestDone /\ NRows(df) >= 2) =>
        /\ FGe(result.max_drawdown, Num(0))
        /\ FLe(result.max_drawdown, Num(100))
        /\ CapitalNeverDecreases => result.max_drawdown = Num(0)

\* A finished run whose capital rose and never fell.
C14_Witness ==
    /\ BacktestDone
    /\ NRows(df) >= 3
    /\ CapitalNeverDecreases
    /\ FGt(df["capital"][NRows(df)], df["capital"][1])
    /\ result.max_drawdown = Num(0)

\* A finished run whose capital fell below an earlier peak.
C14_DrawdownObserved ==
    /\ BacktestDone
    /\ ~CapitalNeverDecreases
    /\ FGt(result.max_drawdown, Num(0))

\* The 0-based row of an index label.
RowOf(date) == date \div BarHours

(* C19: the mark-to-market of bar i is applied before the signal of bar i  *)
(* is acted on.  A sell record made at bar i carries the capital recorded  *)
(* at bar i, which is the capital recorded at bar i-1 times                *)
(* close[i]/close[i-1]; a buy record made at bar i carries the capital     *)
(* recorded at bar i-1, and bar i records that same capital.               *)
C19_MarkedBeforeSignal ==
    (pc \in {"backtest_loop", "backtest_done", "backtest_raised"}) =>
        \A k \in 1..Len(trades) :
            LET i == RowOf(trades[k].date)
                recorded == df["capital"]
                close == df["close"]
            IN /\ i >= 1
               /\ trades[k].type = "sell" =>
                      /\ trades[k].capital = recorded[i + 1]
                      /\ trades[k].capital =
                             FMul(recorded[i], FDiv(close[i + 1], close[i]))
               /\ trades[k].type = "buy" =>
                      /\ trades[k].capital = recorded[i]
                      /\ recorded[i + 1] = recorded[i]

\* A run that bought on a bar whose close moved and sold on a later bar
\* whose close moved again.
C19_Witness ==
    /\ pc = "backtest_loop"
    /\ Len(trades) = 2
    /\ trades[1].type = "buy"
    /\ trades[2].type = "sell"
    /\ df["close"][RowOf(trades[1].date) + 1]
           # df["close"][RowOf(trades[1].date)]
    /\ FGt(trades[2].capital, trades[1].capital)
    /\ trades[2].capital = df["capital"][RowOf(trades[2].date) + 1]

(* C20: in a step of the loop, a buy signal while long, a sell signal      *)
(* while flat and a hold signal leave position, entry price and trade      *)
(* list as they are; the position changes only by a buy signal while flat  *)
(* (to long) and by a sell signal while long (to flat), and then it always *)
(* changes: nothing else is consulted.                                     *)
C20_OnlySignalsMovePosition ==
    [][(pc = "backtest_loop" /\ row' = row + 1) =>
          LET signal == df["signal_action"][row + 1]
              opens == signal = "buy" /\ position = 0
              closes == signal = "sell" /\ position = 1
          IN /\ (~opens /\ ~closes) =>
                    /\ position' = position
                    /\ entry_price' = entry_price
                    /\ trades' = trades
             /\ opens => (position' = 1 /\ Len(trades') = Len(trades) + 1)
             /\ closes => (position' = 0 /\ Len(trades') = Len(trades) + 1)
             /\ position' # position => (opens \/ closes)]_vars

\* A run that met a sell signal while flat, bought, and met a buy signal
\* while long at another close: one record, the entry price of the first
\* buy.
C20_Witness ==
    /\ pc = "backtest_loop"
    /\ row = 4
    /\ df["signal_action"] = <<"hold", "sell", "buy", "buy">>
    /\ df["close"][4] # df["close"][3]
    /\ position = 1
    /\ Len(trades) = 1
    /\ entry_price = df["close"][3]

\* The records of one type among the first k of a trade list.
CountType(trade_list, kind, k) ==
    Cardinality({j \in 1..k : trade_list[j].type = kind})

\* run_backtest is in its loop or past it.
InBacktest == pc \in {"backtest_loop", "backtest_done", "backtest_raised"}

(* C21: after any prefix of the signals the trade list alternates buy,     *)
(* sell, buy, ... from a buy; buys less sells is 1 when long and 0 when    *)
(* flat, so an unclosed buy is the last record; the trades_count of a      *)
(* result, floor(records / 2), is the number of sell records.              *)
C21_TradesAlternate ==
    InBacktest =>
        /\ \A k \in 1..Len(trades) :
               trades[k].type = IF k % 2 = 1 THEN "buy" ELSE "sell"
        /\ CountType(trades, "buy", Len(trades))
               - CountType(trades, "sell", Len(trades)) = position
        /\ position \in {0, 1}
        /\ position = 1 => trades[Len(trades)].type = "buy"
        /\ BacktestDone =>
               /\ result.trades_count = Len(trades) \div 2
               /\ result.trades_count =
                      CountType(trades, "sell", Len(trades))

\* A finished run of a round trip followed by an unclosed buy.
C21_Witness ==
    /\ BacktestDone
    /\ Len(trades) = 3
    /\ position = 1
    /\ result.trades_count = 1

-----------------------------------------------------------------------------
(* Properties of the batch.                                                *)

\* The symbols run_all has called run_backtest for.
Attempted ==
    {Symbols[k] : k \in {j \in 1..Len(Symbols) :
        j < next_symbol \/ (j = next_symbol /\ pc # "run_all_loop")}}

\* The batch can take no further step.
RunAllOver == next_symbol >= 1 /\ pc \in {"run_all_done", "backtest_raised"}

(* C15: in a batch of run_all the failure of one symbol (no data, or a     *)
(* fault raised inside run_backtest) does not keep the remaining symbols   *)
(* from being run: when the batch is over, run_backtest was called for     *)
(* every symbol, and every symbol whose run ended normally has its result  *)
(* stored.                                                                 *)
C15_FailureIsolated ==
    RunAllOver =>
        /\ Attempted = {Symbols[k] : k \in 1..Len(Symbols)}
        /\ \A k \in 1..Len(results) : results[k].value.symbol = results[k].key

\* A batch in which the first symbol had no data and the second was run
\* and stored.
C15_NoDataIsolated ==
    /\ pc = "run_all_done"
    /\ DictKeys(results) = {Symbols[2]}

-----------------------------------------------------------------------------
(* Properties of the report.                                               *)

ReportDone == pc = "report_done"

(* C16: generate_report on an empty results mapping returns "No results    *)
(* available" and divides by nothing; on one result or more its divisor,   *)
(* the number of results, is not zero: the call never ends in a            *)
(* ZeroDivisionError.                                                      *)
C16_EmptyReportNoDivision ==
    /\ pc # "report_raised"
    /\ ReportDone =>
           IF results = <<>>
           THEN report = NoResultsAvailable
           ELSE /\ report # NoResultsAvailable
                /\ DOMAIN report = {"summary", "overall"}
                /\ Len(results) >= 1
                /\ \A label \in DOMAIN report.overall :
                       report.overall[label] \notin {"inf", "inf%"}

\* The report of a Backtester without results.
C16_Witness ==
    /\ ReportDone
    /\ results = <<>>
    /\ report = NoResultsAvailable

\* The simple average of a metric over the stored results, as text.
MeanText(metric) ==
    LET values == [k \in 1..Len(results) |->
                      IF metric = "trades_count"
                      THEN Num(results[k].value[metric])
                      ELSE results[k].value[metric]]
    IN Format2f(FDiv(SumRows(values, Len(values)), Num(Len(results))))

\* The table has one row per symbol, in the order of the dict, holding the
\* six metrics of the symbol.
OneRowPerSymbol ==
    /\ Len(report.summary) = Len(results)
    /\ \A k \in 1..Len(results) :
           LET line == report.summary[k]
               res == results[k].value
           IN /\ line["Symbol"] = results[k].key
              /\ line["Return (%)"] = Format2f(res.total_return)
              /\ line["Annual (%)"] = Format2f(res.annual_return)
              /\ line["Sharpe"] = Format2f(res.sharpe_ratio)
              /\ line["Max DD (%)"] = Format2f(res.max_drawdown)
              /\ line["Win Rate (%)"] = Format2f(res.win_rate)
              /\ line["Trades"] = res.trades_count

(* C17 as stated: the report of a non-empty results mapping has one row    *)
(* per symbol and shows the simple average of each of the six metrics of   *)
(* the table: return, annualized return, Sharpe, max drawdown, win rate    *)
(* and trade count.                                                        *)
C17_Original ==
    (ReportDone /\ results # <<>>) =>
        /\ OneRowPerSymbol
        /\ \A metric \in {"total_return", "annual_return", "sharpe_ratio",
                            "max_drawdown", "win_rate", "trades_count"} :
               \E label \in DOMAIN report.overall :
                   report.overall[label] \in
                       {MeanText(metric), MeanText(metric) \o "%"}

(* C17, amended: the report of a non-empty results mapping has one row per *)
(* symbol and shows the simple average of four metrics, return, Sharpe,    *)
(* max drawdown and win rate, and of no other.                             *)
C17_RowsAndFourAverages ==
    (ReportDone /\ results # <<>>) =>
        /\ OneRowPerSymbol
        /\ DOMAIN report.overall =
               {"Average Return", "Average Sharpe Ratio",
                "Average Max Drawdown", "Average Win Rate"}
        /\ report.overall["Average Return"] =
               MeanText("total_return") \o "%"
        /\ report.overall["Average Sharpe Ratio"] = MeanText("sharpe_ratio")
        /\ report.overall["Average Max Drawdown"] =
               MeanText("max_drawdown") \o "%"
        /\ report.overall["Average Win Rate"] = MeanText("win_rate") \o "%"

\* The report of two symbols with different results.
C17_Witness ==
    /\ ReportDone
    /\ Len(results) = 2
    /\ report.summary[1]["Win Rate (%)"] = "100.00"
    /\ report.summary[2]["Win Rate (%)"] = "50.00"
    /\ report.overall["Average Win Rate"] = "75.00%"
    /\ report.overall["Average Return"] = "5.31%"

-----------------------------------------------------------------------------
(* Properties of the trade executor.                                       *)

\* The dict active_orders holds for an order id.
ActiveOrder(history, active, order_id) ==
    history[DictGet(active, order_id, 0)]

PositionOf(sizes, sym) == DictGet(sizes, sym, Num(0))

(* C24: a call of execute_trade that returns None leaves active_orders,    *)
(* trade_history and the recorded positions as they were; a call that      *)
(* returns an order id has put that id into active_orders with status      *)
(* 'placed', appended exactly one record (that order's) to trade_history,  *)
(* and moved the recorded position of the order's symbol by +size for a    *)
(* buy and by -size for a sell, leaving every other position alone.        *)
C24_StateChangesOnlyOnSuccess ==
    [][last_call'.op = "execute_trade" =>
          IF last_call'.returned = NoResult
          THEN UNCHANGED <<active_orders, trade_history, position_sizes>>
          ELSE LET order_id == last_call'.returned
                   placed == trade_history'[Len(trade_history')]
                   before == PositionOf(position_sizes, placed.symbol)
               IN /\ order_id \in DictKeys(active_orders')
                  /\ ActiveOrder(trade_history', active_orders', order_id)
                         = placed
                  /\ placed.id = order_id
                  /\ placed.status = "placed"
                  /\ trade_history' = Append(trade_history, placed)
                  /\ placed.action \in {"buy", "sell"}
                  /\ PositionOf(position_sizes', placed.symbol) =
                         IF placed.action = "buy"
                         THEN FAdd(before, placed.size)
                         ELSE FSub(before, placed.size)
                  /\ \A sym \in SymbolSet \ {placed.symbol} :
                         PositionOf(position_sizes', sym) =
                             PositionOf(position_sizes, sym)
                  /\ \A other \in DictKeys(active_orders) :
                         /\ other \in DictKeys(active_orders')
                         /\ ActiveOrder(trade_history', active_orders', other)
                                = ActiveOrder(trade_history, active_orders,
                                              other)
    ]_vars

\* execute_trade has just returned the id of a second order, a sell, after
\* a first order that is still on record.
C24_Witness ==
    /\ last_call.op = "execute_trade"
    /\ last_call.returned = "2"
    /\ Len(trade_history) = 2
    /\ trade_history[2].action = "sell"
    /\ trade_history[2].status = "placed"
    /\ "2" \in DictKeys(active_orders)
    /\ PositionOf(position_sizes, Symbols[1]) = Num(0)

\* Every active order is an order on record.
ActiveOrdersOnRecord ==
    \A k \in 1..Len(active_orders) :
        /\ active_orders[k].value \in 1..Len(trade_history)
        /\ trade_history[active_orders[k].value].id = active_orders[k].key

(* C25: under every interleaving of execute_trade, check_order_status,     *)
(* cancel_order and cancel_all_orders: each id in active_orders has its    *)
(* record in trade_history; trade_history never loses a record; an order   *)
(* leaves active_orders only in a check_order_status call on it that       *)
(* observed 'filled' or 'canceled'; a cancel_order that returns True marks *)
(* the order 'canceling', keeps it active and changes nothing else; and    *)
(* cancel_order or check_order_status on an id that is not active returns  *)
(* False or None without contacting the exchange or changing any state.    *)
C25_OrderBookkeeping ==
    /\ []ActiveOrdersOnRecord
    /\ [][/\ Len(trade_history') >= Len(trade_history)
          /\ \A k \in 1..Len(trade_history) :
                 trade_history'[k].id = trade_history[k].id
          /\ \A order_id \in DictKeys(active_orders) :
                 order_id \notin DictKeys(active_orders') =>
                     /\ last_call'.op = "check_order_status"
                     /\ last_call'.order_id = order_id
                     /\ last_call'.returned \in {"filled", "canceled"}
                     /\ trade_history'[DictGet(active_orders, order_id, 0)]
                            .status = last_call'.returned
          /\ last_call'.op = "cancel_order" =>
                 LET order_id == last_call'.order_id
                 IN IF order_id \in DictKeys(active_orders)
                    THEN /\ last_call'.contacted
                         /\ active_orders' = active_orders
                         /\ IF last_call'.returned
                            THEN trade_history' =
                                     SetOrderField(trade_history,
                                         active_orders, order_id, "status",
                                         "canceling")
                            ELSE trade_history' = trade_history
                    ELSE /\ last_call'.returned = FALSE
                         /\ ~last_call'.contacted
                         /\ UNCHANGED <<active_orders, trade_history,
                                        position_sizes>>
          /\ last_call'.op = "check_order_status" =>
                 (last_call'.order_id \notin DictKeys(active_orders) =>
                      /\ last_call'.returned = NoResult
                      /\ ~last_call'.contacted
                      /\ UNCHANGED <<active_orders, trade_history,
                                     position_sizes>>)
      ]_vars

\* The first order was seen filled and has left active_orders; a cancel
\* request for the second was accepted and the order is still active.
C25_Witness ==
    /\ Len(trade_history) = 2
    /\ trade_history[1].status = "filled"
    /\ trade_history[2].status = "canceling"
    /\ DictKeys(active_orders) = {"2"}
    /\ last_call.op = "cancel_order"
    /\ last_call.order_id = "2"
    /\ last_call.returned

-----------------------------------------------------------------------------
(* Properties of the trading bot.                                          *)

(* C26: whatever orders execute_trade, place_stop_loss_order and           *)
(* place_take_profit_order have placed, process_symbol's buy with its      *)
(* stop-loss and take-profit of the same size included, the recorded       *)
(* position size of every symbol is at least zero.                         *)
C26_PositionNeverNegative ==
    \A sym \in SymbolSet : FGe(PositionOf(position_sizes, sym), Num(0))

\* The ids a cancel_all_orders call sent a cancel request for.
CancelRequests(call) ==
    {call.returned[k].order_id :
        k \in {j \in 1..Len(call.returned) : call.returned[j].contacted}}

InLoop == pc \in {"bot_while", "bot_for"}

(* C27: in run, once handle_shutdown has set running to False, at any      *)
(* point of an iteration, no further loop iteration starts and shutdown    *)
(* is then executed, once and never twice, sending a cancel request for    *)
(* every order that is in active_orders when it runs; shutdown also runs   *)
(* when an exception ends the loop; and an exception inside one            *)
(* process_symbol call leaves the for loop going, so that every symbol of  *)
(* that iteration is processed, in order.                                  *)
C27_ShutdownAfterSignal ==
    /\ [][~running /\ pc # "bot_constructed" =>
              iterations' = iterations]_vars
    /\ [](shutdowns <= 1)
    /\ (~running /\ InLoop) ~> (shutdowns = 1)
    /\ [][shutdowns' # shutdowns =>
              /\ shutdowns' = shutdowns + 1
              /\ last_call'.op = "cancel_all_orders"
              /\ CancelRequests(last_call') = DictKeys(active_orders)]_vars
    /\ (pc = "bot_except") ~> (shutdowns = 1)
    /\ [](pc = "bot_for" =>
              \A k \in 1..Len(processed) :
                  processed[k].symbol = Symbols[k])
    /\ [][pc = "bot_for" /\ Len(processed') > Len(processed) =>
              pc' = "bot_for"]_vars
    /\ \A n \in 1..MaxIterations :
           (pc = "bot_for" /\ iterations = n) ~>
               (pc = "bot_for" /\ iterations = n
                   /\ Len(processed) = Len(Symbols))

\* The signal came during the first iteration, in which processing the
\* first symbol raised an exception and the second symbol's orders were
\* placed; shutdown has run and asked to cancel each of them.
C27_Witness ==
    /\ pc = "bot_stopped"
    /\ ~running
    /\ iterations = 1
    /\ shutdowns = 1
    /\ Len(processed) = Len(Symbols)
    /\ processed[1].raised
    /\ Len(active_orders) = 3
    /\ last_call.op = "cancel_all_orders"
    /\ CancelRequests(last_call) = DictKeys(active_orders)

====
